---- MODULE Spec2Model ----
(***************************************************************************)
(* A model of the transaction layer of gorelly: the lock manager           *)
(* (transaction/lock.go), the transaction manager                          *)
(* (transaction/transaction.go), the write-ahead log                       *)
(* (transaction/log.go) and the recovery manager (transaction/recovery.go),*)
(* and of the buffer pool manager (buffer) over the disk manager (disk).   *)
(***************************************************************************)
EXTENDS Integers, Sequences, FiniteSets, TLC

\* ---------------------------------------------------------------- bounds
MaxQueue == 3         \* longest request list of one RID
MaxLockCalls == 4     \* Lock calls in a run of the lock manager alone
MaxBegin == 2         \* transactions begun through the transaction manager
MaxTxnLockCalls == 2  \* Lock calls in a run of the transaction manager
MaxUpd == 2           \* page updates in a run of the transaction manager
MaxCalls == 2         \* Commit and Abort calls in a run of the transaction manager
MaxIOFail == 1        \* log-file operations that fail in one run
MaxStateCalls == 3    \* Commit and Abort calls in a run without locks and pages
MaxRecLockCalls == 2  \* Lock calls in a run that ends in a crash
MaxRecUpd == 3        \* page updates in a run that ends in a crash
MaxLogLen == 3        \* records in the log file in a run of the log manager alone
MaxPool == 2          \* frames of the largest buffer pool
MaxPages == 3         \* pages the disk manager allocates or a caller asks for
MaxUsage == 2         \* highest UsageCount a cache hit may reach
MaxWrites == 2        \* page modifications by the callers of the buffer pool
MaxBufIOFail == 1     \* heap-file operations that fail in one run
MaxBufCalls == 5      \* FetchPage, CreatePage and Flush calls in one run
BodySize == 16        \* bytes of a slotted page's body
MaxDataLen == 3       \* longest record put in a slot
MaxSlotOps == 5       \* Insert, Remove and Resize calls on one slotted page
TreePageSize == 66    \* bytes of a page of the B+ tree
MaxKeys == 6          \* distinct keys put into the B+ tree
MaxValueLen == 4      \* longest value put into the B+ tree
MaxTreeOps == 5       \* Insert, Update and Delete calls on one B+ tree
MaxTreeUpd == 1       \* Update calls among them
MaxTreeDel == 2       \* Delete calls among them
WidePageSize == 74    \* bytes of a page whose leaves hold three pairs
MaxWideOps == 5       \* Insert and Update calls on the tree of wide pages
MaxWideUpd == 1       \* Update calls among them
LongKeyLen == 2       \* bytes of a long key
MaxLongKeys == 3      \* long keys
MaxLongOps == 4       \* Insert and Update calls on the tree with long keys
MaxCodecLen == 17     \* bytes of the longest byte string given to the codecs
MaxTupleLen == 2      \* elements of the longest tuple given to the codecs
MaxDfsNodes == 4      \* transactions of a wait-for graph checked on its own
NodePageSize == 108   \* bytes of the page of an internal node checked on its own
MaxNodeKeys == 5      \* one-byte keys put into that internal node
MaxLiveCalls == 3     \* Lock calls in a run under fair scheduling
MaxClientCalls == 5   \* Lock calls in a run of clients that release only what they hold
MaxHeapOps == 5       \* Insert, Update and Flush calls on the tree with a heap file

Txns == {1, 2, 3}     \* transaction ids
RIDs == {1, 2}        \* tuple ids (lock grains)

VARIABLES
  lockTable,   \* LockManager.lockTable: RID -> list of LockRequest
  waitFor,     \* LockManager.waitFor: txn -> set of txns it waits for
  pc,          \* per transaction: where its goroutine is inside a Lock call
  waitRid,     \* per transaction: the RID its blocked Lock call is about (0: none)
  res,         \* per transaction: what its last Lock call returned
  scenF,       \* how far the run has followed the two-transaction deadlock script
  lockBudget,  \* Lock calls the run may still make
  lockCall,    \* <<call, txn>>: the LockManager call the last step belongs to
  txnState,    \* Transaction.State ("None": not created yet)
  nextTxnID,   \* TransactionManager.nextTxnID
  activeTxns,  \* TransactionManager.activeTxns (its key set)
  tmOp,        \* the Commit/Abort call in progress, the statement it is at, and
               \* whether a log or rollback call it made has returned an error
  last,        \* <<operation, txn, result>> of the last call that returned
  callBudget,  \* Commit and Abort calls the run may still make
  updBudget,   \* page updates the run may still make
  fate,        \* per transaction: "committed" once a Commit's flush succeeded,
               \* "aborted" once TransactionManager.Abort was called before that
  log,         \* the log file: the LogRecords written, in file order
  nextLSN,     \* LogManager.nextLSN
  durable,     \* how many records of the log file the last Sync covered
  ioBudget,    \* log-file operations that may still fail in the run
  logFile,     \* the log file as written: the serialized records, in file order
  filePos,     \* the file offset of the log manager's handle, in records
  readBack,    \* what the last ReadLog call returned
  logCall,     \* the last LogManager call that returned
  cache,       \* the buffer pool: the value at each RID's page range
  disk,        \* the heap file: the value at each RID's page range
  sys,         \* "up", "crashed" (pool dropped) or "recovered" (Recover returned)
  buffers,     \* BufferPool.buffers: BufferID -> Frame
  nextVictimID,\* BufferPool.nextVictimID, the clock hand
  pageTable,   \* BufferPoolManager.pageTable: PageID -> BufferID
  heapFile,    \* the heap file: its pages, its size in pages, whether synced
  nextPageId,  \* DiskManager.nextPageId
  bpmCall,     \* the last BufferPoolManager call: what was asked and returned
  written,     \* per page: the bytes its callers wrote to it last
  wrBudget,    \* page modifications the callers may still make
  bufBudget,   \* buffer pool manager calls the run may still make
  slotted,     \* a Slotted: its header, its pointers and the body they live in
  slotVals,    \* per slot: the length and the bytes its caller wrote last
  slotCall,    \* the last Slotted call: what was asked and returned
  slotBudget,  \* Slotted calls the run may still make
  btPageSize,  \* disk.PageSize: the bytes of a page of the B+ tree
  btPages,     \* the pages of one B+ tree: the meta page, then the nodes
  btKV,        \* the pairs the B+ tree was given and still has to hold
  btCall,      \* the last BTree call: what was asked and returned
  btBudget,    \* BTree calls the run may still make
  btUpdBudget, \* Update calls among them
  btDelBudget, \* Delete calls among them
  codec,       \* the inputs of the memcmpable and tuple codecs and what the
               \* Encode and Decode calls made on them returned
  dfs,         \* a wait-for graph, the transaction a deadlock check starts
               \* from, and what the check returned
  branch,      \* an InternalNode on its own, and what the last Insert or
               \* SplitInsert call made on it returned
  btDirty,     \* the page ids of the buffers of the B+ tree that are dirty
  btDisk       \* the heap file of the B+ tree: the pages written to it

lockVars == <<lockTable, waitFor, pc, waitRid, res, lockBudget, lockCall>>
tmVars == <<txnState, nextTxnID, activeTxns, tmOp, last, callBudget, updBudget, fate>>
logVars == <<log, nextLSN, durable, ioBudget, logFile, filePos, readBack, logCall>>
pageVars == <<cache, disk, sys>>
bufVars == <<buffers, nextVictimID, pageTable, heapFile, nextPageId, bpmCall, written,
             wrBudget, bufBudget>>
slotVars == <<slotted, slotVals, slotCall, slotBudget>>
btVars == <<btPageSize, btPages, btKV, btCall, btBudget, btUpdBudget, btDelBudget>>
fnVars == <<codec, dfs, branch>>
heapVars == <<btDirty, btDisk>>
structVars == <<slotVars, btVars, fnVars, heapVars>>
nonLockVars == <<tmVars, logVars, pageVars, bufVars, structVars>>
vars == <<lockVars, scenF, structVars, tmVars, logVars, pageVars, bufVars>>

\* ------------------------------------------------------------ lock manager

\* A LockRequest; the condition variable is modelled by pc (a Broadcast on a
\* request's Cond makes the goroutine blocked on that request runnable).
Req(t, m, g) == [txn |-> t, mode |-> m, granted |-> g]

GrantedIdx(q) == {i \in 1..Len(q) : q[i].granted}
PendingIdx(q) == {i \in 1..Len(q) : ~q[i].granted}
Holders(q) == {q[i].txn : i \in GrantedIdx(q)}
Waiters(q) == {q[i].txn : i \in PendingIdx(q)}

\* canGrantLock with the shared-holders test dropped for an exclusive request.
canGrantLockIgnoringShared(q, mode) ==
  IF Len(q) = 0 THEN TRUE
  ELSE IF \E i \in GrantedIdx(q) : q[i].mode = "X" THEN FALSE
  ELSE TRUE

\* lock.go canGrantLock: only the granted requests of the list decide.
canGrantLock(q, mode) ==
  IF Len(q) = 0 THEN TRUE
  ELSE IF \E i \in GrantedIdx(q) : (q[i].mode = "X" \/ mode = "X") THEN FALSE
  ELSE IF mode = "S" /\ GrantedIdx(q) # {}
       THEN \A i \in GrantedIdx(q) : q[i].mode # "X"
       ELSE GrantedIdx(q) = {}

\* lock.go grantLock: mark the transaction's first pending request granted and
\* wake it, else append a new granted request.  [q, woke]
grantLock(q, t, mode) ==
  LET P == {i \in PendingIdx(q) : q[i].txn = t} IN
  IF P # {}
  THEN LET i == CHOOSE j \in P : \A k \in P : j <= k IN
       [q |-> [q EXCEPT ![i].granted = TRUE], woke |-> {t}]
  ELSE [q |-> Append(q, Req(t, mode, TRUE)), woke |-> {}]

RECURSIVE gplFrom(_, _, _)
gplFrom(q, i, woke) ==
  IF i > Len(q) THEN [q |-> q, woke |-> woke]
  ELSE IF q[i].granted THEN gplFrom(q, i + 1, woke)
  ELSE IF canGrantLock(q, q[i].mode)
       THEN LET q2 == [q EXCEPT ![i].granted = TRUE] IN
            IF q[i].mode = "X"
            THEN [q |-> q2, woke |-> woke \cup {q[i].txn}]
            ELSE gplFrom(q2, i + 1, woke \cup {q[i].txn})
       ELSE [q |-> q, woke |-> woke]

RECURSIVE gplBackFrom(_, _, _)
gplBackFrom(q, i, woke) ==
  IF i < 1 THEN [q |-> q, woke |-> woke]
  ELSE IF q[i].granted THEN gplBackFrom(q, i - 1, woke)
  ELSE IF canGrantLock(q, q[i].mode)
       THEN LET q2 == [q EXCEPT ![i].granted = TRUE] IN
            IF q[i].mode = "X"
            THEN [q |-> q2, woke |-> woke \cup {q[i].txn}]
            ELSE gplBackFrom(q2, i - 1, woke \cup {q[i].txn})
       ELSE gplBackFrom(q, i - 1, woke)

\* grantPendingLocks scanning from the newest request to the oldest.
grantPendingLocksNewestFirst(q) == gplBackFrom(q, Len(q), {})

\* grantPendingLocks that grants nothing and signals nobody.
grantPendingLocksNone(q) == [q |-> q, woke |-> {}]

\* lock.go grantPendingLocks: walk the list from the front.  [q, woke]
grantPendingLocks(q) == gplFrom(q, 1, {})

\* updateWaitForGraph that gives no waiter an edge to itself.
updateWaitForGraphNoSelf(wf, q) ==
  LET grantedTxns == Holders(q)
      allTxns == {q[i].txn : i \in 1..Len(q)}
  IN [t \in Txns |->
        IF t \in Waiters(q)
        THEN (wf[t] \ (allTxns \ grantedTxns)) \cup (grantedTxns \ {t})
        ELSE wf[t]]

\* lock.go updateWaitForGraph, for the request list q of one RID.
updateWaitForGraph(wf, q) ==
  LET grantedTxns == Holders(q)
      allTxns == {q[i].txn : i \in 1..Len(q)}
  IN [t \in Txns |->
        IF t \in Waiters(q)
        THEN (wf[t] \ (allTxns \ grantedTxns)) \cup grantedTxns
        ELSE wf[t]]

\* The smallest element of a non-empty set of transactions (the order in which
\* the model walks a Go map; the result of the search does not depend on it).
MinOf(S) == CHOOSE x \in S : \A y \in S : x <= y

RECURSIVE dfsDeadlock(_, _, _, _)
RECURSIVE dfsNeighbours(_, _, _, _, _)
\* lock.go dfsDeadlock: [found, visited, recStack]
dfsDeadlock(wf, t, visited, recStack) ==
  LET r == dfsNeighbours(wf, t, wf[t], visited \cup {t}, recStack \cup {t}) IN
  IF r.found THEN r
  ELSE [found |-> FALSE, visited |-> r.visited, recStack |-> r.recStack \ {t}]

\* The loop of dfsDeadlock taking every visited transaction for one on the
\* recursion stack.
RECURSIVE dfsNeighboursVisited(_, _, _, _, _)
dfsNeighboursVisited(wf, t, todo, visited, recStack) ==
  IF todo = {} THEN [found |-> FALSE, visited |-> visited, recStack |-> recStack]
  ELSE LET b == MinOf(todo) IN
       IF b \notin visited
       THEN LET r == dfsDeadlock(wf, b, visited, recStack) IN
            IF r.found THEN r
            ELSE dfsNeighboursVisited(wf, t, todo \ {b}, r.visited, r.recStack)
       ELSE [found |-> TRUE, visited |-> visited, recStack |-> recStack]

\* the loop over waitFor[txnID] of dfsDeadlock
dfsNeighbours(wf, t, todo, visited, recStack) ==
  IF todo = {} THEN [found |-> FALSE, visited |-> visited, recStack |-> recStack]
  ELSE LET b == MinOf(todo) IN
       IF b \notin visited
       THEN LET r == dfsDeadlock(wf, b, visited, recStack) IN
            IF r.found THEN r
            ELSE dfsNeighbours(wf, t, todo \ {b}, r.visited, r.recStack)
       ELSE IF b \in recStack
            THEN [found |-> TRUE, visited |-> visited, recStack |-> recStack]
            ELSE dfsNeighbours(wf, t, todo \ {b}, visited, recStack)

\* hasDeadlock never reporting a cycle.
hasDeadlockNever(wf, t) == FALSE

\* lock.go hasDeadlock
hasDeadlock(wf, t) == dfsDeadlock(wf, t, {}, {}).found

RemoveAt(q, i) == [j \in 1..(Len(q) - 1) |-> IF j < i THEN q[j] ELSE q[j + 1]]

\* lock.go removeRequest: the request at index i of q (0: the request is no
\* longer in the list) made by transaction t.  [q, wf, woke]
removeRequest(wf, q, i, t) ==
  LET q1 == IF i = 0 THEN q ELSE RemoveAt(q, i)
      wf1 == [u \in Txns |-> IF u = t THEN {} ELSE wf[u] \ {t}]
      wf2 == updateWaitForGraph(wf1, q1)
      g == grantPendingLocks(q1)
  IN [q |-> g.q, wf |-> wf2, woke |-> g.woke]

\* the granted requests of t taken out of q (Unlock, UnlockAll)
DropGranted(q, t) == SelectSeq(q, LAMBDA r : ~(r.txn = t /\ r.granted))

\* A Broadcast on the condition variables of the requests of the transactions in
\* woke: their blocked goroutines become runnable.
Broadcast(woke) ==
  [t \in Txns |-> IF t \in woke /\ pc[t] = "wait" THEN "woken" ELSE pc[t]]

\* ---- what the lock table says about a transaction and a RID
HoldsX(t, r) == \E i \in GrantedIdx(lockTable[r]) :
                  lockTable[r][i].txn = t /\ lockTable[r][i].mode = "X"
HoldsS(t, r) == \E i \in GrantedIdx(lockTable[r]) :
                  lockTable[r][i].txn = t /\ lockTable[r][i].mode = "S"
PendingOn(t, r, m) == \E i \in PendingIdx(lockTable[r]) :
                  lockTable[r][i].txn = t /\ lockTable[r][i].mode = m
HasRequestOn(t, r) == \E i \in 1..Len(lockTable[r]) : lockTable[r][i].txn = t

\* ---- the two-transaction deadlock script (scenario F)
ScenNext(op) ==
  CASE scenF = "s0"  /\ op = <<"LX", 1, 1>> -> "s1a"
    [] scenF = "s0"  /\ op = <<"LX", 2, 2>> -> "s1b"
    [] scenF = "s1a" /\ op = <<"LX", 2, 2>> -> "s2"
    [] scenF = "s1b" /\ op = <<"LX", 1, 1>> -> "s2"
    [] scenF = "s2"  /\ op = <<"LX", 1, 2>> -> "s3"
    [] scenF = "s3"  /\ op = <<"LX", 2, 1>> -> "s4"
    [] scenF = "s4"  /\ op = <<"UL", 2, 2>> -> "s5"
    [] scenF = "s5"  /\ op = <<"WK", 1, 2>> -> "s6"
    [] OTHER -> "off"

\* IsActive answering true in every state
IsActiveAlways(state) == TRUE

\* Transaction.IsActive
IsActive(state) == state = "Active"

\* ---- LockShared / LockExclusive, up to the return or the first Wait; a
\* call for a transaction that is not active returns before lm.mu is taken
Lock(t, r, mode) ==
  /\ sys = "up"
  /\ pc[t] = "idle"
  /\ txnState[t] # "None"
  /\ txnState[t] = "Active" => tmOp.txn # t
  /\ Len(lockTable[r]) < MaxQueue
  /\ lockBudget > 0
  /\ lockBudget' = lockBudget - 1
  /\ lockCall' = <<"lock", t>>
  /\ LET q == lockTable[r] IN
     IF ~IsActive(txnState[t])
     THEN /\ res' = [res EXCEPT ![t] = "notActive"]
          /\ UNCHANGED <<lockTable, waitFor, pc, waitRid>>
     ELSE IF canGrantLock(q, mode)
     THEN LET g == grantLock(q, t, mode) IN
          /\ lockTable' = [lockTable EXCEPT ![r] = g.q]
          /\ pc' = Broadcast(g.woke)
          /\ res' = [res EXCEPT ![t] = "ok"]
          /\ UNCHANGED <<waitFor, waitRid>>
     ELSE LET q2 == Append(q, Req(t, mode, FALSE))
              wf2 == updateWaitForGraph(waitFor, q2)
          IN IF hasDeadlock(wf2, t)
             THEN LET rr == removeRequest(wf2, q2, Len(q2), t) IN
                  /\ lockTable' = [lockTable EXCEPT ![r] = rr.q]
                  /\ waitFor' = rr.wf
                  /\ pc' = Broadcast(rr.woke)
                  /\ res' = [res EXCEPT ![t] = "deadlock"]
                  /\ UNCHANGED waitRid
             ELSE /\ lockTable' = [lockTable EXCEPT ![r] = q2]
                  /\ waitFor' = wf2
                  /\ pc' = [pc EXCEPT ![t] = "wait"]
                  /\ waitRid' = [waitRid EXCEPT ![t] = r]
                  /\ res' = [res EXCEPT ![t] = "blocked"]
  /\ scenF' = ScenNext(<<IF mode = "X" THEN "LX" ELSE "LS", t, r>>)
  /\ UNCHANGED nonLockVars

LockShared(t, r) == Lock(t, r, "S")

LockExclusive(t, r) == Lock(t, r, "X")

\* ---- the rest of a blocked Lock call, after Cond.Wait returned
Wake(t) ==
  /\ sys = "up"
  /\ pc[t] = "woken"
  /\ LET r == waitRid[t]
         q == lockTable[r]
         I == {i \in 1..Len(q) : q[i].txn = t}
         i == IF I = {} THEN 0 ELSE MinOf(I)
     IN IF hasDeadlock(waitFor, t)
        THEN LET rr == removeRequest(waitFor, q, i, t) IN
             /\ lockTable' = [lockTable EXCEPT ![r] = rr.q]
             /\ waitFor' = rr.wf
             /\ pc' = [Broadcast(rr.woke) EXCEPT ![t] = "idle"]
             /\ res' = [res EXCEPT ![t] = "deadlock"]
        ELSE /\ pc' = [pc EXCEPT ![t] = "idle"]
             /\ res' = [res EXCEPT ![t] = "ok"]
             /\ UNCHANGED <<lockTable, waitFor>>
  /\ scenF' = ScenNext(<<"WK", t, waitRid[t]>>)
  /\ waitRid' = [waitRid EXCEPT ![t] = 0]
  /\ lockCall' = <<"lock", t>>
  /\ UNCHANGED <<lockBudget, nonLockVars>>

\* the effect of Unlock's body on one RID: [q, wf, woke]
unlockOne(wf, q, t) ==
  LET g == grantPendingLocks(DropGranted(q, t)) IN
  [q |-> g.q, wf |-> updateWaitForGraph(wf, g.q), woke |-> g.woke]

\* ---- Unlock
Unlock(t, r) ==
  /\ LET u == unlockOne(waitFor, lockTable[r], t) IN
     /\ lockTable' = [lockTable EXCEPT ![r] = u.q]
     /\ waitFor' = u.wf
     /\ pc' = Broadcast(u.woke)
  /\ scenF' = ScenNext(<<"UL", t, r>>)
  /\ lockCall' = <<"unlock", t>>
  /\ UNCHANGED <<waitRid, res, lockBudget, nonLockVars>>

RECURSIVE unlockAllFrom(_, _, _, _, _)
\* the loop of UnlockAll over the RIDs of the lock table
unlockAllFrom(lt, wf, woke, todo, t) ==
  IF todo = {} THEN [lt |-> lt, wf |-> wf, woke |-> woke]
  ELSE LET r == MinOf(todo)
           u == unlockOne(wf, lt[r], t)
       IN unlockAllFrom([lt EXCEPT ![r] = u.q], u.wf, woke \cup u.woke, todo \ {r}, t)

\* UnlockAll without the removal of the transaction from the wait-for graph.
unlockAllLeavingEdges(lt, wf, t) ==
  LET a == unlockAllFrom(lt, wf, {}, RIDs, t) IN
  [lt |-> a.lt, wf |-> a.wf, woke |-> a.woke]

\* UnlockAll that releases nothing.
unlockAllKeeping(lt, wf, t) == [lt |-> lt, wf |-> wf, woke |-> {}]

\* lock.go UnlockAll: [lt, wf, woke]
unlockAll(lt, wf, t) ==
  LET a == unlockAllFrom(lt, wf, {}, RIDs, t) IN
  [lt |-> a.lt,
   wf |-> [u \in Txns |-> IF u = t THEN {} ELSE a.wf[u] \ {t}],
   woke |-> a.woke]

\* ---- UnlockAll
UnlockAll(t) ==
  /\ LET a == unlockAll(lockTable, waitFor, t) IN
     /\ lockTable' = a.lt
     /\ waitFor' = a.wf
     /\ pc' = Broadcast(a.woke)
  /\ scenF' = ScenNext(<<"UA", t, 0>>)
  /\ lockCall' = <<"unlockAll", t>>
  /\ UNCHANGED <<waitRid, res, lockBudget, nonLockVars>>

\* no Commit or Abort call of the transaction manager is in progress
NoOp == [op |-> "none", txn |-> 0, step |-> "none", failed |-> FALSE]

\* ------------------------------------------------------------- log manager

\* A LogRecord; rid stands for the record's (PageID, Offset) range.
Rec(ty, t, r, old, new) ==
  [type |-> ty, txn |-> t, rid |-> r, old |-> old, new |-> new, lsn |-> 0]

\* the LogRecordType constants (iota)
typeCode(ty) ==
  CASE ty = "Update" -> 0
    [] ty = "Commit" -> 1
    [] ty = "Abort" -> 2
    [] ty = "Begin" -> 3
    [] ty = "Checkpoint" -> 4

typeOf(code) ==
  CASE code = 0 -> "Update"
    [] code = 1 -> "Commit"
    [] code = 2 -> "Abort"
    [] code = 3 -> "Begin"
    [] code = 4 -> "Checkpoint"
    [] OTHER -> "Unknown"

\* serializeRecord: the LSN and the record size, then the fields in file
\* order (LSN, TxnID and PageID are written with the 64 bits they have, the
\* type with 32 bits)
serializeRecord(rec) ==
  LET data == <<typeCode(rec.type), rec.txn, rec.rid, rec.old, rec.new>>
  IN [lsn |-> rec.lsn, size |-> Len(data), data |-> data]

\* deserializeRecord with OldValue and NewValue exchanged.
deserializeRecordSwapped(lsn, data) ==
  [type |-> typeOf(data[1]), txn |-> data[2], rid |-> data[3],
   old |-> data[5], new |-> data[4], lsn |-> lsn]

\* deserializeRecord
deserializeRecord(lsn, data) ==
  [type |-> typeOf(data[1]), txn |-> data[2], rid |-> data[3],
   old |-> data[4], new |-> data[5], lsn |-> lsn]

\* ReadLog on a file that could be read: the records from the start to EOF
readLog(file) ==
  [i \in 1..Len(file) |->
     deserializeRecord(file[i].lsn, SubSeq(file[i].data, 1, file[i].size))]

\* recoverLSN: the LSN after the last one in the file, 1 for an empty file
recoverLSN(file) == IF Len(file) = 0 THEN 1 ELSE file[Len(file)].lsn + 1

\* How a call that writes or syncs the log file can end.
AppendOutcomes ==
  {"ok"} \cup (IF ioBudget > 0 THEN {"writeFail", "syncFail"} ELSE {})

FlushOutcomes == {"ok"} \cup (IF ioBudget > 0 THEN {"syncFail"} ELSE {})

ReadOutcomes == {"ok"} \cup (IF ioBudget > 0 THEN {"readFail"} ELSE {})

\* AppendLog that reports success although Write failed.
AppendLogIgnoringWriteError(lg, nxt, dur, rec, out) ==
  IF out = "writeFail"
  THEN [log |-> lg, nextLSN |-> nxt + 1, durable |-> dur, err |-> FALSE]
  ELSE IF out = "syncFail"
  THEN [log |-> Append(lg, [rec EXCEPT !.lsn = nxt]), nextLSN |-> nxt + 1,
        durable |-> dur, err |-> TRUE]
  ELSE [log |-> Append(lg, [rec EXCEPT !.lsn = nxt]), nextLSN |-> nxt + 1,
        durable |-> Len(lg) + 1, err |-> FALSE]

\* LogManager.AppendLog: the LSN is taken before the Write, the Sync follows
\* the Write; the result is [log, nextLSN, durable, err].
AppendLog(lg, nxt, dur, rec, out) ==
  IF out = "writeFail"
  THEN [log |-> lg, nextLSN |-> nxt + 1, durable |-> dur, err |-> TRUE]
  ELSE IF out = "syncFail"
  THEN [log |-> Append(lg, [rec EXCEPT !.lsn = nxt]), nextLSN |-> nxt + 1,
        durable |-> dur, err |-> TRUE]
  ELSE [log |-> Append(lg, [rec EXCEPT !.lsn = nxt]), nextLSN |-> nxt + 1,
        durable |-> Len(lg) + 1, err |-> FALSE]

\* the log-file part of a step that made the AppendLog call a
\* The file is opened with O_APPEND: a Write starts at the end of the file,
\* wherever Seek or Read left the offset
writePos(file, pos) == Len(file)

\* Write of one record at record position p (0 = start of the file)
writeAt(file, p, rec) ==
  SubSeq(file, 1, p) \o <<rec>> \o SubSeq(file, p + 2, Len(file))

Appended(a, out) ==
  /\ log' = a.log
  /\ nextLSN' = a.nextLSN
  /\ durable' = a.durable
  /\ ioBudget' = IF out = "ok" THEN ioBudget ELSE ioBudget - 1
  /\ logFile' = IF Len(a.log) > Len(log)
                THEN writeAt(logFile, writePos(logFile, filePos),
                             serializeRecord(a.log[Len(a.log)]))
                ELSE logFile
  /\ filePos' = IF Len(a.log) > Len(log)
                THEN writePos(logFile, filePos) + 1
                ELSE filePos
  /\ logCall' = "append"
  /\ UNCHANGED readBack

UpdatesOf(lg, t) == {i \in 1..Len(lg) : lg[i].type = "Update" /\ lg[i].txn = t}

\* the records the callers of the log manager alone hand to AppendLog
LogInputs ==
  {Rec("Begin", 1, 0, 0, 0), Rec("Update", 1, 1, 0, 11), Rec("Update", 2, 1, 11, 21),
   Rec("Commit", 1, 0, 0, 0), Rec("Abort", 2, 0, 0, 0)}

\* ---- LogManager.AppendLog, called directly
AppendLogCall(rec) ==
  /\ Len(logFile) < MaxLogLen
  /\ \E out \in AppendOutcomes :
       Appended(AppendLog(log, nextLSN, durable, rec, out), out)
  /\ UNCHANGED <<lockVars, scenF, bufVars, structVars, tmVars, pageVars>>

\* ---- LogManager.ReadLog, called directly: Seek to the start, read to EOF
\* or to the record at which a read fails
ReadLog ==
  /\ \E out \in ReadOutcomes :
       IF out = "ok"
       THEN /\ readBack' = readLog(logFile)
            /\ filePos' = Len(logFile)
            /\ UNCHANGED ioBudget
       ELSE /\ \E k \in 0..Len(logFile) : filePos' = k
            /\ ioBudget' = ioBudget - 1
            /\ readBack' = <<>>
  /\ logCall' = IF ioBudget' = ioBudget THEN "read" ELSE "readErr"
  /\ UNCHANGED <<lockVars, scenF, bufVars, structVars, tmVars, pageVars, log, nextLSN, durable, logFile>>

\* ---- LogManager.Close and NewLogManager on the same file
Reopen ==
  /\ logCall # "open"
  /\ nextLSN' = recoverLSN(logFile)
  /\ filePos' = Len(logFile)
  /\ logCall' = "open"
  /\ UNCHANGED <<lockVars, scenF, bufVars, structVars, tmVars, pageVars, log, durable, ioBudget, logFile, readBack>>

\* ------------------------------------------------------- recovery manager

undoUpdate(pages, rec) == [pages EXCEPT ![rec.rid] = rec.old]

redoUpdate(pages, rec) == [pages EXCEPT ![rec.rid] = rec.new]

RECURSIVE undoAll(_, _, _)
\* the loop over txnRecords that callBudget undoUpdate
undoAll(pages, recs, k) ==
  IF k > Len(recs) THEN pages
  ELSE undoAll(undoUpdate(pages, recs[k]), recs, k + 1)

RECURSIVE rollbackScan(_, _, _, _)
\* Rollback's scan from the newest record down: the Updates of t, up to a
\* Commit or Abort record of t
rollbackScan(lg, i, t, acc) ==
  IF i = 0 THEN acc
  ELSE IF lg[i].txn = t /\ lg[i].type \in {"Commit", "Abort"} THEN acc
  ELSE IF lg[i].txn = t /\ lg[i].type = "Update"
       THEN rollbackScan(lg, i - 1, t, Append(acc, lg[i]))
       ELSE rollbackScan(lg, i - 1, t, acc)

\* Rollback that collects the Updates but writes nothing back.
rollbackNothing(lg, pages, t) == pages

\* RecoveryManager.Rollback on a log that could be read
rollback(lg, pages, t) == undoAll(pages, rollbackScan(lg, Len(lg), t, <<>>), 1)

RECURSIVE analysis(_, _, _, _)
\* Recover, phase 1: [active, committed]
analysis(lg, i, active, committed) ==
  IF i > Len(lg) THEN [active |-> active, committed |-> committed]
  ELSE IF lg[i].type = "Begin"
       THEN analysis(lg, i + 1, active \cup {lg[i].txn}, committed)
  ELSE IF lg[i].type = "Commit"
       THEN analysis(lg, i + 1, active \ {lg[i].txn}, committed \cup {lg[i].txn})
  ELSE IF lg[i].type = "Abort"
       THEN analysis(lg, i + 1, active \ {lg[i].txn}, committed)
  ELSE analysis(lg, i + 1, active, committed)

RECURSIVE redoPhase(_, _, _, _)
\* Recover, phase 2
redoPhase(lg, i, committed, pages) ==
  IF i > Len(lg) THEN pages
  ELSE IF lg[i].type = "Update" /\ lg[i].txn \in committed
       THEN redoPhase(lg, i + 1, committed, redoUpdate(pages, lg[i]))
       ELSE redoPhase(lg, i + 1, committed, pages)

RECURSIVE undoScan(_, _, _, _)
\* Recover's scan for one active transaction: its Updates, newest first, up
\* to its Begin record
undoScan(lg, i, t, acc) ==
  IF i = 0 THEN acc
  ELSE IF lg[i].txn = t /\ lg[i].type = "Begin" THEN acc
  ELSE IF lg[i].txn = t /\ lg[i].type = "Update"
       THEN undoScan(lg, i - 1, t, Append(acc, lg[i]))
       ELSE undoScan(lg, i - 1, t, acc)

RECURSIVE undoPhase(_, _, _, _)
\* Recover, phase 3, visiting the active transactions in the order ord
undoPhase(lg, ord, k, pages) ==
  IF k > Len(ord) THEN pages
  ELSE undoPhase(lg, ord, k + 1,
                 undoAll(pages, undoScan(lg, Len(lg), ord[k], <<>>), 1))

\* the orders in which a range over a map can visit its keys
Orders(S) ==
  {o \in [1..Cardinality(S) -> S] : \A i, j \in 1..Cardinality(S) : i # j => o[i] # o[j]}

\* RecoveryManager.Recover on a log that could be read: the pages it flushes
recover(lg, pages, ord) ==
  LET a == analysis(lg, 1, {}, {}) IN
  undoPhase(lg, ord, 1, redoPhase(lg, 1, a.committed, pages))

\* ---- a dirty page is written back (eviction, or BufferPoolManager.Flush)
FlushPage(r) ==
  /\ sys = "up"
  /\ cache[r] # disk[r]
  /\ disk' = [disk EXCEPT ![r] = cache[r]]
  /\ UNCHANGED <<lockVars, scenF, bufVars, structVars, tmVars, logVars, cache, sys>>

\* ---- the in-memory pool is dropped: every page is read from the file again
Crash ==
  /\ sys = "up"
  /\ tmOp = NoOp
  /\ Len(log) > 0
  /\ cache' = disk
  /\ sys' = "crashed"
  /\ UNCHANGED <<lockVars, scenF, bufVars, structVars, tmVars, logVars, disk>>

\* ---- Recover
Recover ==
  /\ sys = "crashed"
  /\ \E ord \in Orders(analysis(readLog(logFile), 1, {}, {}).active) :
       /\ cache' = recover(readLog(logFile), cache, ord)
       /\ disk' = recover(readLog(logFile), cache, ord)
  /\ sys' = "recovered"
  /\ readBack' = readLog(logFile)
  /\ filePos' = Len(logFile)
  /\ logCall' = "read"
  /\ UNCHANGED <<lockVars, scenF, bufVars, structVars, tmVars, log, nextLSN, durable, ioBudget, logFile>>

\* ----------------------------------------------------- transaction manager

\* ---- TransactionManager.Begin
Begin ==
  /\ sys = "up"
  /\ tmOp = NoOp
  /\ nextTxnID <= MaxBegin
  /\ nextTxnID \in Txns
  /\ \E out \in AppendOutcomes :
       LET a == AppendLog(log, nextLSN, durable, Rec("Begin", nextTxnID, 0, 0, 0), out) IN
       Appended(a, out)
  /\ txnState' = [txnState EXCEPT ![nextTxnID] = "Active"]
  /\ activeTxns' = activeTxns \cup {nextTxnID}
  /\ nextTxnID' = nextTxnID + 1
  /\ UNCHANGED <<callBudget, updBudget, lockVars, scenF, bufVars, structVars, tmOp, last, fate, pageVars>>

\* ---- a client's page update: the Update record first, then the page
Update(t, r) ==
  /\ sys = "up"
  /\ pc[t] = "idle"
  /\ tmOp.txn # t
  /\ txnState[t] = "Active"
  /\ HoldsX(t, r)
  /\ updBudget > 0
  /\ updBudget' = updBudget - 1
  /\ \E out \in AppendOutcomes :
       LET new == 10 * t + Cardinality(UpdatesOf(log, t)) + 1
           a == AppendLog(log, nextLSN, durable, Rec("Update", t, r, cache[r], new), out)
       IN /\ Appended(a, out)
          /\ cache' = IF a.err THEN cache ELSE [cache EXCEPT ![r] = new]
  /\ UNCHANGED <<lockVars, scenF, bufVars, structVars, txnState, nextTxnID, activeTxns, tmOp, last,
                 callBudget, fate, disk, sys>>

\* what Transaction.Commit returns in state s
commitResult(s) ==
  IF s = "Active" THEN "ok"
  ELSE IF s = "Committed" THEN "alreadyCommitted" ELSE "notActive"

\* ---- Transaction.Commit, called on the transaction itself
TransactionCommit(t) ==
  /\ sys = "up"
  /\ pc[t] = "idle"
  /\ tmOp.txn # t
  /\ txnState[t] # "None"
  /\ callBudget > 0
  /\ callBudget' = callBudget - 1
  /\ UNCHANGED updBudget
  /\ txnState' = [txnState EXCEPT ![t] = IF @ = "Active" THEN "Committed" ELSE @]
  /\ last' = <<"txnCommit", t, commitResult(txnState[t])>>
  /\ UNCHANGED <<lockVars, scenF, bufVars, structVars, nextTxnID, activeTxns, tmOp, fate, logVars, pageVars>>

\* ---- Transaction.Abort, called on the transaction itself: up to State = Failed
TransactionAbort(t) ==
  /\ sys = "up"
  /\ pc[t] = "idle"
  /\ tmOp.txn # t
  /\ txnState[t] # "None"
  /\ callBudget > 0
  /\ callBudget' = callBudget - 1
  /\ UNCHANGED updBudget
  /\ IF txnState[t] = "Terminated"
     THEN /\ last' = <<"txnAbort", t, "ok">>
          /\ UNCHANGED <<txnState, pc>>
     ELSE IF txnState[t] = "Aborted"
     THEN /\ last' = <<"txnAbort", t, "alreadyAborted">>
          /\ UNCHANGED <<txnState, pc>>
     ELSE /\ txnState' = [txnState EXCEPT ![t] = "Failed"]
          /\ pc' = [pc EXCEPT ![t] = "aborting"]
          /\ UNCHANGED last
  /\ UNCHANGED <<lockTable, waitFor, waitRid, res, lockBudget, lockCall, scenF, bufVars, structVars,
                 nextTxnID, activeTxns, tmOp, fate, logVars, pageVars>>

\* ---- Transaction.Abort: State = Aborted and the return
TransactionAbortDone(t) ==
  /\ sys = "up"
  /\ pc[t] = "aborting"
  /\ txnState' = [txnState EXCEPT ![t] = "Aborted"]
  /\ pc' = [pc EXCEPT ![t] = "idle"]
  /\ last' = <<"txnAbort", t, "ok">>
  /\ UNCHANGED <<callBudget, updBudget, lockTable, waitFor, waitRid, res, lockBudget, lockCall, scenF, bufVars, structVars,
                 nextTxnID, activeTxns, tmOp, fate, logVars, pageVars>>

\* the statement TransactionManager.Commit goes to after a statement succeeded
commitNext(step) ==
  CASE step = "append" -> "flush"
    [] step = "flush" -> "unlock"
    [] step = "unlock" -> "remove"
    [] step = "remove" -> "terminate"
    [] OTHER -> "none"

\* ---- TransactionManager.Commit: txn.Commit()
Commit(t) ==
  /\ sys = "up"
  /\ tmOp = NoOp
  /\ pc[t] = "idle"
  /\ txnState[t] # "None"
  /\ callBudget > 0
  /\ callBudget' = callBudget - 1
  /\ UNCHANGED updBudget
  /\ IF commitResult(txnState[t]) = "ok"
     THEN /\ txnState' = [txnState EXCEPT ![t] = "Committed"]
          /\ tmOp' = [op |-> "commit", txn |-> t, step |-> "append", failed |-> FALSE]
          /\ UNCHANGED last
     ELSE /\ last' = <<"commit", t, commitResult(txnState[t])>>
          /\ UNCHANGED <<txnState, tmOp>>
  /\ UNCHANGED <<lockVars, scenF, bufVars, structVars, nextTxnID, activeTxns, fate, logVars, pageVars>>

\* ---- TransactionManager.Commit: AppendLog(commitRecord)
CommitAppend ==
  /\ tmOp.op = "commit" /\ tmOp.step = "append"
  /\ \E out \in AppendOutcomes :
       LET a == AppendLog(log, nextLSN, durable, Rec("Commit", tmOp.txn, 0, 0, 0), out) IN
       /\ Appended(a, out)
       /\ IF a.err
          THEN /\ tmOp' = NoOp
               /\ last' = <<"commit", tmOp.txn, "logError">>
          ELSE /\ tmOp' = [tmOp EXCEPT !.step = commitNext("append")]
               /\ UNCHANGED last
  /\ UNCHANGED <<callBudget, updBudget, lockVars, scenF, bufVars, structVars, txnState, nextTxnID, activeTxns, fate, pageVars>>

\* ---- TransactionManager.Commit: logManager.Flush()
CommitFlush ==
  /\ tmOp.op = "commit" /\ tmOp.step = "flush"
  /\ \E out \in FlushOutcomes :
       IF out = "ok"
       THEN /\ durable' = Len(log)
            /\ tmOp' = [tmOp EXCEPT !.step = commitNext("flush")]
            /\ fate' = [fate EXCEPT ![tmOp.txn] = "committed"]
            /\ UNCHANGED <<last, ioBudget>>
       ELSE /\ ioBudget' = ioBudget - 1
            /\ tmOp' = NoOp
            /\ last' = <<"commit", tmOp.txn, "logError">>
            /\ UNCHANGED <<durable, fate>>
  /\ logCall' = "flush"
  /\ UNCHANGED <<callBudget, updBudget, lockVars, scenF, bufVars, structVars, txnState, nextTxnID, activeTxns,
                 log, nextLSN, logFile, filePos, readBack, pageVars>>

\* ---- TransactionManager.Commit: lockManager.UnlockAll(txn)
CommitUnlock ==
  /\ tmOp.op = "commit" /\ tmOp.step = "unlock"
  /\ LET a == unlockAll(lockTable, waitFor, tmOp.txn) IN
     /\ lockTable' = a.lt
     /\ waitFor' = a.wf
     /\ pc' = Broadcast(a.woke)
  /\ tmOp' = [tmOp EXCEPT !.step = commitNext("unlock")]
  /\ UNCHANGED <<callBudget, updBudget, waitRid, res, lockBudget, lockCall, scenF, bufVars, structVars, txnState, nextTxnID, activeTxns,
                 last, fate, logVars, pageVars>>

\* ---- TransactionManager.Commit: delete(tm.activeTxns, txn.ID)
CommitRemove ==
  /\ tmOp.op = "commit" /\ tmOp.step = "remove"
  /\ activeTxns' = activeTxns \ {tmOp.txn}
  /\ tmOp' = [tmOp EXCEPT !.step = commitNext("remove")]
  /\ UNCHANGED <<callBudget, updBudget, lockVars, scenF, bufVars, structVars, txnState, nextTxnID, last, fate, logVars, pageVars>>

\* ---- TransactionManager.Commit: txn.State = Terminated and the return
CommitTerminate ==
  /\ tmOp.op = "commit" /\ tmOp.step = "terminate"
  /\ txnState' = [txnState EXCEPT ![tmOp.txn] = "Terminated"]
  /\ last' = <<"commit", tmOp.txn, "ok">>
  /\ tmOp' = NoOp
  /\ UNCHANGED <<callBudget, updBudget, lockVars, scenF, bufVars, structVars, nextTxnID, activeTxns, fate, logVars, pageVars>>

\* ---- TransactionManager.Abort: txn.Abort() up to State = Failed
Abort(t) ==
  /\ sys = "up"
  /\ tmOp = NoOp
  /\ pc[t] = "idle"
  /\ txnState[t] # "None"
  /\ callBudget > 0
  /\ callBudget' = callBudget - 1
  /\ UNCHANGED updBudget
  /\ IF txnState[t] \in {"Terminated", "Aborted"}
     THEN /\ tmOp' = [op |-> "abort", txn |-> t, step |-> "rollback", failed |-> FALSE]
          /\ UNCHANGED txnState
     ELSE /\ txnState' = [txnState EXCEPT ![t] = "Failed"]
          /\ tmOp' = [op |-> "abort", txn |-> t, step |-> "aborted", failed |-> FALSE]
  /\ fate' = [fate EXCEPT ![t] = IF @ = "committed" THEN @ ELSE "aborted"]
  /\ UNCHANGED <<lockVars, scenF, bufVars, structVars, nextTxnID, activeTxns, last, logVars, pageVars>>

\* ---- TransactionManager.Abort: txn.Abort() sets State = Aborted and returns
AbortAborted ==
  /\ tmOp.op = "abort" /\ tmOp.step = "aborted"
  /\ txnState' = [txnState EXCEPT ![tmOp.txn] = "Aborted"]
  /\ tmOp' = [tmOp EXCEPT !.step = "rollback"]
  /\ UNCHANGED <<callBudget, updBudget, lockVars, scenF, bufVars, structVars, nextTxnID, activeTxns, last, fate, logVars, pageVars>>

\* ---- TransactionManager.Abort: recoveryManager.Rollback(txn), its error dropped
AbortRollback ==
  /\ tmOp.op = "abort" /\ tmOp.step = "rollback"
  /\ \E out \in ReadOutcomes :
       IF out = "ok"
       THEN /\ cache' = rollback(readLog(logFile), cache, tmOp.txn)
            /\ readBack' = readLog(logFile)
            /\ filePos' = Len(logFile)
            /\ UNCHANGED ioBudget
       ELSE /\ ioBudget' = ioBudget - 1
            /\ filePos' = 0
            /\ readBack' = <<>>
            /\ UNCHANGED cache
  /\ logCall' = IF ioBudget' = ioBudget THEN "read" ELSE "readErr"
  /\ tmOp' = [tmOp EXCEPT !.step = "append", !.failed = @ \/ ioBudget' # ioBudget]
  /\ UNCHANGED <<callBudget, updBudget, lockVars, scenF, bufVars, structVars, txnState, nextTxnID, activeTxns, last, fate,
                 log, nextLSN, durable, logFile, disk, sys>>

\* ---- TransactionManager.Abort: AppendLog(abortRecord), its error dropped
AbortAppend ==
  /\ tmOp.op = "abort" /\ tmOp.step = "append"
  /\ \E out \in AppendOutcomes :
       LET a == AppendLog(log, nextLSN, durable, Rec("Abort", tmOp.txn, 0, 0, 0), out) IN
       /\ Appended(a, out)
       /\ tmOp' = [tmOp EXCEPT !.step = "unlock", !.failed = @ \/ a.err]
  /\ UNCHANGED <<callBudget, updBudget, lockVars, scenF, bufVars, structVars, txnState, nextTxnID, activeTxns, last, fate, pageVars>>

\* ---- TransactionManager.Abort: lockManager.UnlockAll(txn)
AbortUnlock ==
  /\ tmOp.op = "abort" /\ tmOp.step = "unlock"
  /\ LET a == unlockAll(lockTable, waitFor, tmOp.txn) IN
     /\ lockTable' = a.lt
     /\ waitFor' = a.wf
     /\ pc' = Broadcast(a.woke)
  /\ tmOp' = [tmOp EXCEPT !.step = "remove"]
  /\ UNCHANGED <<callBudget, updBudget, waitRid, res, lockBudget, lockCall, scenF, bufVars, structVars, txnState, nextTxnID, activeTxns,
                 last, fate, logVars, pageVars>>

\* ---- TransactionManager.Abort: delete(tm.activeTxns, txn.ID)
AbortRemove ==
  /\ tmOp.op = "abort" /\ tmOp.step = "remove"
  /\ activeTxns' = activeTxns \ {tmOp.txn}
  /\ tmOp' = [tmOp EXCEPT !.step = "terminate"]
  /\ UNCHANGED <<callBudget, updBudget, lockVars, scenF, bufVars, structVars, txnState, nextTxnID, last, fate, logVars, pageVars>>

\* ---- TransactionManager.Abort: txn.State = Terminated and the return
AbortTerminate ==
  /\ tmOp.op = "abort" /\ tmOp.step = "terminate"
  /\ txnState' = [txnState EXCEPT ![tmOp.txn] = "Terminated"]
  /\ last' = <<"abort", tmOp.txn, "ok">>
  /\ tmOp' = NoOp
  /\ UNCHANGED <<callBudget, updBudget, lockVars, scenF, bufVars, structVars, nextTxnID, activeTxns, fate, logVars, pageVars>>

\* ------------------------------------------------------ buffer pool manager
\* PageID(^uint64(0)): the id no page has
InvalidPageID == -1

\* the pages a caller asks for
PageIDs == 0..(MaxPages - 1)

NewBuffer == [PageID |-> InvalidPageID, Page |-> 0, IsDirty |-> FALSE]

NewBufferPool(poolSize) ==
  [i \in 0..(poolSize - 1) |-> [UsageCount |-> 0, Buffer |-> NewBuffer]]

Size(bufs) == Cardinality(DOMAIN bufs)

\* BufferPool.Evict: UsageCount is unsigned, so the test UsageCount > 0 that
\* follows UsageCount == 0 never fails and its else branch (count the pinned
\* frames, return false) never runs
RECURSIVE Evict(_, _)
Evict(bufs, hand) ==
  IF bufs[hand].UsageCount = 0
  THEN [id |-> hand, ok |-> TRUE, buffers |-> bufs, nextVictimID |-> hand]
  ELSE Evict([bufs EXCEPT ![hand].UsageCount = @ - 1], (hand + 1) % Size(bufs))

\* DiskManager.ReadPageData: io.EOF at or past the end of the file
ReadPageData(heap, pageID) ==
  IF pageID >= heap.size
  THEN [err |-> "EOF", data |-> 0]
  ELSE [err |-> "nil", data |-> heap.pages[pageID]]

\* DiskManager.WritePageData: Seek and Write of one page
WritePageData(heap, pageID, data) ==
  [pages |-> [heap.pages EXCEPT ![pageID] = data],
   size |-> IF pageID + 1 > heap.size THEN pageID + 1 ELSE heap.size,
   synced |-> FALSE]

\* delete(pageTable, pageID) and pageTable[pageID] = bufferID
Unmap(table, pageID) == [q \in DOMAIN table \ {pageID} |-> table[q]]
Map(table, pageID, bufferID) ==
  [q \in DOMAIN table \cup {pageID} |-> IF q = pageID THEN bufferID ELSE table[q]]

\* what a heap-file operation may do: the failures once per MaxBufIOFail
DiskOutcomes == IF ioBudget > 0 THEN {"ok", "fail"} ELSE {"ok"}
\* a failing ReadPageData fails in Seek (buffer untouched) or in ReadFull
\* (the bytes read so far are in the buffer)
DiskReadOutcomes == IF ioBudget > 0 THEN {"ok", "seekFail", "readFail"} ELSE {"ok"}

\* BufferPoolManager.FetchPage; wr and rd are what WritePageData and
\* ReadPageData do if they are called
fetchPage(bufs, hand, table, heap, pageID, wr, rd) ==
  IF pageID \in DOMAIN table
  THEN [buffers |-> [bufs EXCEPT ![table[pageID]].UsageCount = @ + 1],
        nextVictimID |-> hand, pageTable |-> table, heapFile |-> heap,
        err |-> "nil", frame |-> table[pageID], hit |-> TRUE]
  ELSE
    LET e == Evict(bufs, hand)
        bufferID == e.id
        frame == e.buffers[bufferID]
        evictPageID == frame.Buffer.PageID
        evicted == [buffers |-> e.buffers, nextVictimID |-> e.nextVictimID,
                    pageTable |-> table, heapFile |-> heap,
                    err |-> "io", frame |-> bufferID, hit |-> FALSE]
        heapW == IF frame.Buffer.IsDirty
                 THEN WritePageData(heap, evictPageID, frame.Buffer.Page)
                 ELSE heap
        rdRes == ReadPageData(heapW, pageID)
        retagged(page) ==
          [e.buffers EXCEPT ![bufferID].Buffer =
             [PageID |-> pageID, Page |-> page, IsDirty |-> FALSE]]
    IN IF ~e.ok
       THEN [evicted EXCEPT !.err = "ErrNoFreeBuffer"]
       ELSE IF frame.Buffer.IsDirty /\ (wr = "fail" \/ evictPageID = InvalidPageID)
       THEN evicted
       ELSE IF rd = "seekFail"
       THEN [evicted EXCEPT !.buffers = retagged(frame.Buffer.Page), !.heapFile = heapW]
       ELSE IF rd = "readFail" /\ rdRes.err = "nil"
       THEN [evicted EXCEPT !.buffers = retagged(rdRes.data), !.heapFile = heapW]
       ELSE [buffers |-> retagged(rdRes.data),
             nextVictimID |-> e.nextVictimID,
             pageTable |-> Map(Unmap(table, evictPageID), pageID, bufferID),
             heapFile |-> heapW,
             err |-> "nil", frame |-> bufferID, hit |-> FALSE]

\* CreatePage without the write of a dirty victim
createPageNoWriteBack(bufs, hand, table, heap, nxt, wr) ==
  LET e == Evict(bufs, hand)
  IN [buffers |-> [e.buffers EXCEPT ![e.id] =
                     [UsageCount |-> 1, Buffer |-> [NewBuffer EXCEPT !.PageID = nxt]]],
      nextVictimID |-> e.nextVictimID,
      pageTable |-> Map(Unmap(table, e.buffers[e.id].Buffer.PageID), nxt, e.id),
      heapFile |-> heap, nextPageId |-> nxt + 1,
      err |-> "nil", frame |-> e.id, page |-> nxt]

\* BufferPoolManager.CreatePage, with DiskManager.AllocatePage
createPage(bufs, hand, table, heap, nxt, wr) ==
  LET e == Evict(bufs, hand)
      bufferID == e.id
      frame == e.buffers[bufferID]
      evictPageID == frame.Buffer.PageID
      evicted == [buffers |-> e.buffers, nextVictimID |-> e.nextVictimID,
                  pageTable |-> table, heapFile |-> heap, nextPageId |-> nxt,
                  err |-> "io", frame |-> bufferID, page |-> InvalidPageID]
      heapW == IF frame.Buffer.IsDirty
               THEN WritePageData(heap, evictPageID, frame.Buffer.Page)
               ELSE heap
      pageID == nxt
  IN IF ~e.ok
     THEN [evicted EXCEPT !.err = "ErrNoFreeBuffer"]
     ELSE IF frame.Buffer.IsDirty /\ (wr = "fail" \/ evictPageID = InvalidPageID)
     THEN evicted
     ELSE [buffers |-> [e.buffers EXCEPT ![bufferID] =
                          [UsageCount |-> 1,
                           Buffer |-> [NewBuffer EXCEPT !.PageID = pageID]]],
           nextVictimID |-> e.nextVictimID,
           pageTable |-> Map(Unmap(table, evictPageID), pageID, bufferID),
           heapFile |-> heapW, nextPageId |-> nxt + 1,
           err |-> "nil", frame |-> bufferID, page |-> pageID]

\* the page-table entries whose frame is dirty
DirtyEntries(bufs, table) == {p \in DOMAIN table : bufs[table[p]].Buffer.IsDirty}

\* BufferPoolManager.Flush up to the Sync: the dirty entries in done are
\* written and marked clean (the range over the map visits the entries in
\* any order); the Write of an entry outside done failed unless done is all
flushPages(bufs, table, heap, done) ==
  LET frames == {table[p] : p \in done}
      RECURSIVE writeAll(_, _)
      writeAll(h, todo) ==
        IF todo = {} THEN h
        ELSE LET pageID == CHOOSE p \in todo : \A q \in todo : p <= q
             IN writeAll(WritePageData(h, pageID, bufs[table[pageID]].Buffer.Page),
                         todo \ {pageID})
  IN [buffers |-> [i \in DOMAIN bufs |->
                     IF i \in frames THEN [bufs[i] EXCEPT !.Buffer.IsDirty = FALSE]
                                     ELSE bufs[i]],
      heapFile |-> writeAll(heap, done),
      err |-> IF done = DirtyEntries(bufs, table) THEN "nil" ELSE "io"]

\* ---- BufferPoolManager.FetchPage(pageID), for a page that CreatePage has
\* returned before
FetchPage(pageID) ==
  /\ bufBudget > 0
  /\ pageID < nextPageId
  /\ bufBudget' = bufBudget - 1
  /\ pageID \in DOMAIN pageTable => buffers[pageTable[pageID]].UsageCount < MaxUsage
  /\ \E wr \in DiskOutcomes, rd \in DiskReadOutcomes :
       LET f == fetchPage(buffers, nextVictimID, pageTable, heapFile, pageID, wr, rd)
       IN /\ (wr = "ok" /\ rd = "ok") \/ f.err = "io"
          /\ buffers' = f.buffers
          /\ nextVictimID' = f.nextVictimID
          /\ pageTable' = f.pageTable
          /\ heapFile' = f.heapFile
          /\ ioBudget' = IF f.err = "io" THEN ioBudget - 1 ELSE ioBudget
          /\ bpmCall' = [op |-> "fetch", page |-> pageID, frame |-> f.frame,
                         err |-> f.err]
  /\ UNCHANGED <<nextPageId, written, wrBudget>>
  /\ UNCHANGED <<lockVars, scenF, structVars, tmVars, pageVars,
                 log, nextLSN, durable, logFile, filePos, readBack, logCall>>

\* ---- BufferPoolManager.CreatePage()
CreatePage ==
  /\ bufBudget > 0
  /\ bufBudget' = bufBudget - 1
  /\ nextPageId < MaxPages
  /\ \E wr \in DiskOutcomes :
       LET c == createPage(buffers, nextVictimID, pageTable, heapFile, nextPageId, wr)
       IN /\ wr = "ok" \/ c.err = "io"
          /\ buffers' = c.buffers
          /\ nextVictimID' = c.nextVictimID
          /\ pageTable' = c.pageTable
          /\ heapFile' = c.heapFile
          /\ nextPageId' = c.nextPageId
          /\ ioBudget' = IF c.err = "io" THEN ioBudget - 1 ELSE ioBudget
          /\ bpmCall' = [op |-> "create", page |-> c.page, frame |-> c.frame,
                         err |-> c.err]
  /\ UNCHANGED <<written, wrBudget>>
  /\ UNCHANGED <<lockVars, scenF, structVars, tmVars, pageVars,
                 log, nextLSN, durable, logFile, filePos, readBack, logCall>>

\* ---- BufferPoolManager.Flush(): the dirty pages, then DiskManager.Sync
Flush ==
  /\ bufBudget > 0
  /\ \E done \in SUBSET DirtyEntries(buffers, pageTable), sy \in DiskOutcomes :
       LET f == flushPages(buffers, pageTable, heapFile, done)
           failed == f.err = "io" \/ sy = "fail"
       IN /\ f.err = "io" => (ioBudget > 0 /\ sy = "ok")
          /\ buffers' = f.buffers
          /\ heapFile' = IF failed THEN f.heapFile
                                   ELSE [f.heapFile EXCEPT !.synced = TRUE]
          /\ ioBudget' = IF failed THEN ioBudget - 1 ELSE ioBudget
          /\ bpmCall' = [op |-> "flush", page |-> InvalidPageID, frame |-> 0,
                         err |-> IF failed THEN "io" ELSE "nil"]
  /\ bufBudget' = bufBudget - 1
  /\ UNCHANGED <<nextVictimID, pageTable, nextPageId, written, wrBudget>>
  /\ UNCHANGED <<lockVars, scenF, structVars, tmVars, pageVars,
                 log, nextLSN, durable, logFile, filePos, readBack, logCall>>

\* ---- the caller of the last FetchPage or CreatePage modifies the page of
\* the buffer it was given and marks the buffer dirty
WriteBuffer ==
  /\ bpmCall.op \in {"fetch", "create"} /\ bpmCall.err = "nil"
  /\ wrBudget > 0
  /\ LET data == MaxWrites - wrBudget + 1
     IN /\ buffers' = [buffers EXCEPT ![bpmCall.frame].Buffer.Page = data,
                                      ![bpmCall.frame].Buffer.IsDirty = TRUE]
        /\ written' = [written EXCEPT ![bpmCall.page] = data]
  /\ wrBudget' = wrBudget - 1
  /\ UNCHANGED <<nextVictimID, pageTable, heapFile, nextPageId, bpmCall, bufBudget>>
  /\ UNCHANGED <<lockVars, scenF, structVars, tmVars, logVars, pageVars>>

\* ------------------------------------------------------------- slotted page
\* A Slotted over a body of BodySize bytes.  The header fields are NumSlots and
\* FreeSpaceOffset, pointers is the slice of Pointer{Offset, Len}, body is the
\* byte array: the pointer array at its front (4 bytes a pointer, little
\* endian, every value here below 256 so the high bytes are 0), the records
\* at its back.  Indices are the source's, from 0.
PointerSize == 4

\* Slotted.Capacity: len(s.body)
Capacity(s) == Cardinality(DOMAIN s.body)

PointersSize(s) == PointerSize * s.NumSlots

FreeSpace(s) == s.FreeSpaceOffset - PointersSize(s)

\* Pointer.Range(bodyLen): [start, end), the end clamped to the body
Range(ptr, bodyLen) ==
  LET end == ptr.Offset + ptr.Len IN
  [start |-> ptr.Offset, end |-> IF end > bodyLen THEN bodyLen ELSE end]

\* Slotted.Data(index): the bytes of the slot, nil beyond the pointers
Data(s, index) ==
  IF index >= Len(s.pointers) THEN <<>>
  ELSE LET rg == Range(s.pointers[index + 1], Capacity(s)) IN
       [k \in 1..(rg.end - rg.start) |-> s.body[rg.start + k - 1]]

\* copy(body[dst:], body[from:to]), a memmove
copyBytes(body, dst, from, to) ==
  LET size == Cardinality(DOMAIN body)
      n == IF to - from < size - dst THEN to - from ELSE size - dst
  IN [b \in DOMAIN body |->
        IF b >= dst /\ b < dst + n THEN body[from + (b - dst)] ELSE body[b]]

\* Slotted.updatePointersInBody: every pointer written at 4 * i
updatePointersInBody(s) ==
  IF Capacity(s) < PointersSize(s) THEN s
  ELSE [s EXCEPT !.body =
          [b \in DOMAIN s.body |->
             IF b < PointersSize(s)
             THEN LET ptr == s.pointers[(b \div PointerSize) + 1] IN
                  CASE b % PointerSize = 0 -> ptr.Offset
                    [] b % PointerSize = 2 -> ptr.Len
                    [] OTHER -> 0
             ELSE s.body[b]]]

\* Slotted.Initialize
Initialize(s) ==
  [s EXCEPT !.NumSlots = 0, !.FreeSpaceOffset = Capacity(s), !.pointers = <<>>]

\* Slotted.Insert(index, dataLen)
Insert(s, index, dataLen) ==
  IF FreeSpace(s) < PointerSize + dataLen
  THEN [s |-> s, ok |-> FALSE]
  ELSE LET fso == s.FreeSpaceOffset - dataLen
           ptr == [Offset |-> fso, Len |-> dataLen]
           ptrs == SubSeq(s.pointers, 1, index) \o <<ptr>>
                     \o SubSeq(s.pointers, index + 1, Len(s.pointers))
       IN [s |-> updatePointersInBody(
                   [s EXCEPT !.FreeSpaceOffset = fso,
                             !.NumSlots = @ + 1,
                             !.pointers = ptrs]),
           ok |-> TRUE]

\* The pointer loop of Resize: every pointer at or before the resized record
\* moves by lenIncr, whatever it points at.
shiftAtOrBefore(ptrs, oldOffset, lenIncr) ==
  [i \in 1..Len(ptrs) |->
     IF ptrs[i].Offset <= oldOffset
     THEN [ptrs[i] EXCEPT !.Offset = @ - lenIncr] ELSE ptrs[i]]

\* Slotted.Resize(index, newLen)
Resize(s, index, newLen) ==
  IF index >= Len(s.pointers) THEN [s |-> s, ok |-> FALSE]
  ELSE
    LET oldLen == s.pointers[index + 1].Len
        lenIncr == newLen - oldLen
        freeSpaceOffset == s.FreeSpaceOffset
        oldOffset == s.pointers[index + 1].Offset
        newFreeSpaceOffset == freeSpaceOffset - lenIncr
        shifted == shiftAtOrBefore(s.pointers, oldOffset, lenIncr)
        ptrs == [shifted EXCEPT ![index + 1] =
                   [Offset |-> IF newLen = 0 THEN newFreeSpaceOffset ELSE @.Offset,
                    Len |-> newLen]]
    IN IF lenIncr = 0 THEN [s |-> s, ok |-> TRUE]
       ELSE IF lenIncr > FreeSpace(s) THEN [s |-> s, ok |-> FALSE]
       ELSE [s |-> updatePointersInBody(
                     [s EXCEPT !.body = copyBytes(@, newFreeSpaceOffset,
                                                  freeSpaceOffset, oldOffset),
                               !.pointers = ptrs,
                               !.FreeSpaceOffset = newFreeSpaceOffset]),
             ok |-> TRUE]

\* Slotted.Remove(index)
Remove(s, index) ==
  LET r == Resize(s, index, 0).s
      ptrs == SubSeq(r.pointers, 1, index)
                \o SubSeq(r.pointers, index + 2, Len(r.pointers))
  IN updatePointersInBody([r EXCEPT !.NumSlots = @ - 1, !.pointers = ptrs])

\* copy(s.Data(index), buf) with every byte of buf equal to v
writeData(s, index, v) ==
  LET rg == Range(s.pointers[index + 1], Capacity(s)) IN
  [s EXCEPT !.body = [b \in DOMAIN s.body |->
                        IF b >= rg.start /\ b < rg.end THEN v ELSE @[b]]]

\* copy(s.Data(index), data)
copyData(s, index, data) ==
  LET rg == Range(s.pointers[index + 1], Capacity(s))
      n == IF Len(data) < rg.end - rg.start THEN Len(data) ELSE rg.end - rg.start
  IN [s EXCEPT !.body = [b \in DOMAIN s.body |->
                           IF b >= rg.start /\ b < rg.start + n
                           THEN data[b - rg.start + 1] ELSE @[b]]]

\* NewSlotted over a zeroed body of size bytes
NewSlotted(size) ==
  [NumSlots |-> 0, FreeSpaceOffset |-> 0, pointers |-> <<>>,
   body |-> [b \in 0..(size - 1) |-> 0]]

\* The bytes the next call's caller writes: a value no earlier call wrote
Stamp == MaxSlotOps - slotBudget + 1

\* ---- Insert(index, dataLen) and, when it returned true, the caller's
\* ---- copy(s.Data(index), buf)
SlottedInsert(index, dataLen) ==
  /\ slotBudget > 0
  /\ index <= slotted.NumSlots
  /\ slotBudget' = slotBudget - 1
  /\ LET r == Insert(slotted, index, dataLen) IN
     /\ slotCall' = [op |-> "insert", index |-> index, ok |-> r.ok]
     /\ IF r.ok
        THEN /\ slotted' = writeData(r.s, index, Stamp)
             /\ slotVals' = SubSeq(slotVals, 1, index)
                              \o <<[len |-> dataLen, val |-> Stamp]>>
                              \o SubSeq(slotVals, index + 1, Len(slotVals))
        ELSE /\ slotted' = r.s
             /\ UNCHANGED slotVals
  /\ UNCHANGED <<lockVars, scenF, tmVars, logVars, pageVars, bufVars, btVars, fnVars, heapVars>>

\* ---- Resize(index, newLen); the caller writes the record again when it grew
SlottedResize(index, newLen) ==
  /\ slotBudget > 0
  /\ index <= slotted.NumSlots
  /\ slotBudget' = slotBudget - 1
  /\ LET r == Resize(slotted, index, newLen)
         grew == index < Len(slotVals) /\ newLen > slotVals[index + 1].len
     IN
     /\ slotCall' = [op |-> "resize", index |-> index, ok |-> r.ok]
     /\ IF r.ok
        THEN /\ slotted' = IF grew THEN writeData(r.s, index, Stamp) ELSE r.s
             /\ slotVals' = [slotVals EXCEPT ![index + 1] =
                               [len |-> newLen,
                                val |-> IF grew THEN Stamp ELSE @.val]]
        ELSE /\ slotted' = r.s
             /\ UNCHANGED slotVals
  /\ UNCHANGED <<lockVars, scenF, tmVars, logVars, pageVars, bufVars, btVars, fnVars, heapVars>>

\* ---- Remove(index)
SlottedRemove(index) ==
  /\ slotBudget > 0
  /\ index < slotted.NumSlots
  /\ slotBudget' = slotBudget - 1
  /\ slotted' = Remove(slotted, index)
  /\ slotVals' = SubSeq(slotVals, 1, index)
                   \o SubSeq(slotVals, index + 2, Len(slotVals))
  /\ slotCall' = [op |-> "remove", index |-> index, ok |-> TRUE]
  /\ UNCHANGED <<lockVars, scenF, tmVars, logVars, pageVars, bufVars, btVars, fnVars, heapVars>>

\* ------------------------------------------------------------------ B+ tree
\* Pages of btPageSize bytes.  A node page is the 8-byte node header (the
\* type), the leaf header {PrevPageID, NextPageID} or the internal header
\* {RightChild}, and a Slotted (its 8-byte header, then the body).  Keys and
\* values are byte sequences; every length and page id here is below 256, so
\* a little-endian integer is its low byte followed by zeros.
NodeHeaderSize == 8
LeafHeaderSize == 16
InternalHeaderSize == 8
HeaderSize == 8

LeafBodySize == btPageSize - NodeHeaderSize - LeafHeaderSize - HeaderSize
InternalBodySize == btPageSize - NodeHeaderSize - InternalHeaderSize - HeaderSize

\* the one element of a set of one: {e(v) : v \in {x}} computes x once
Only(S) == CHOOSE y \in S : TRUE

\* binary.LittleEndian.PutUint32 / PutUint64
littleEndian(n, width) == [i \in 1..width |-> IF i = 1 THEN n ELSE 0]

\* Pair.ToBytes: [key_len:4][key][value_len:4][value]
ToBytes(pair) ==
  littleEndian(Len(pair.Key), 4) \o pair.Key
    \o littleEndian(Len(pair.Value), 4) \o pair.Value

\* what stands for the pair of a PairFromBytes call that panicked
BadPair == [Key |-> <<-1>>, Value |-> <<-1>>]

\* PairFromBytes
PairFromBytes(data) ==
  IF Len(data) < 8 THEN BadPair
  ELSE LET keyLen == data[1] IN
       IF Len(data) < 8 + keyLen THEN BadPair
       ELSE LET valueLen == data[4 + keyLen + 1] IN
            IF Len(data) < 8 + keyLen + valueLen THEN BadPair
            ELSE [Key |-> SubSeq(data, 5, 4 + keyLen),
                  Value |-> SubSeq(data, 9 + keyLen, 8 + keyLen + valueLen)]

\* PageID.ToBytes and PageIDFromBytes
PageIDToBytes(p) == littleEndian(p, 8)
PageIDFromBytes(bytes) == bytes[1]

\* PageID.Valid
Valid(p) == p # InvalidPageID

\* compareBytes
compareBytes(a, b) ==
  LET minLen == IF Len(b) < Len(a) THEN Len(b) ELSE Len(a)
      diff == {i \in 1..minLen : a[i] # b[i]}
  IN IF diff # {}
     THEN (IF a[MinOf(diff)] < b[MinOf(diff)] THEN -1 ELSE 1)
     ELSE IF Len(a) < Len(b) THEN -1
     ELSE IF Len(a) > Len(b) THEN 1
     ELSE 0

\* The loop of BinarySearchBy; cmp[i] is f(i)
RECURSIVE bsearchLoop(_, _, _, _)
bsearchLoop(cmp, left, right, currentSize) ==
  IF ~(left < right) THEN [idx |-> left, found |-> FALSE]
  ELSE LET mid == left + currentSize \div 2 IN
       IF cmp[mid] < 0 THEN bsearchLoop(cmp, mid + 1, right, right - (mid + 1))
       ELSE IF cmp[mid] > 0 THEN bsearchLoop(cmp, left, mid, mid - left)
       ELSE [idx |-> mid, found |-> TRUE]

\* bsearch.BinarySearchBy
BinarySearchBy(size, cmp) == bsearchLoop(cmp, 0, size, size)

\* ---- what Leaf and InternalNode share: a node n has a Slotted n.body
NumPairs(n) == n.body.NumSlots

PairAt(n, slotID) == PairFromBytes(Data(n.body, slotID))

SearchSlotID(n, key) ==
  BinarySearchBy(NumPairs(n),
                 [i \in 0..(NumPairs(n) - 1) |-> compareBytes(PairAt(n, i).Key, key)])

MaxPairSize(n) == Capacity(n.body) \div 2 - 4

IsHalfFull(n) == 2 * FreeSpace(n.body) < Capacity(n.body)

\* Leaf.Insert, InternalNode.Insert (value is pageId.ToBytes() there)
NodeInsert(n, slotID, key, value) ==
  Only({ IF Len(pairBytes) > MaxPairSize(n) THEN [n |-> n, ok |-> FALSE]
         ELSE Only({ IF ~r.ok THEN [n |-> n, ok |-> FALSE]
                     ELSE [n |-> [n EXCEPT !.body = copyData(r.s, slotID, pairBytes)],
                           ok |-> TRUE]
                     : r \in {Insert(n.body, slotID, Len(pairBytes))} })
         : pairBytes \in {ToBytes([Key |-> key, Value |-> value])} })

\* Transfer without the copy of the pair's bytes into dest
TransferNoCopy(n, dest) ==
  Only({ IF ~r.ok THEN [n |-> n, dest |-> dest, panic |-> "no space in dest"]
         ELSE IF NumPairs(n) = 0
         THEN [n |-> n, dest |-> dest, panic |-> "slice bounds out of range"]
         ELSE [n |-> [n EXCEPT !.body = Remove(@, 0)],
               dest |-> [dest EXCEPT !.body = r.s],
               panic |-> "none"]
         : r \in {Insert(dest.body, NumPairs(dest), Len(Data(n.body, 0)))} })

\* Leaf.Transfer, InternalNode.Transfer: the first pair of n goes to the end
\* of dest.  Remove(0) on a node without pairs slices out of range.
Transfer(n, dest) ==
  Only({ Only({ IF ~r.ok THEN [n |-> n, dest |-> dest, panic |-> "no space in dest"]
                ELSE IF NumPairs(n) = 0
                THEN [n |-> n, dest |-> dest, panic |-> "slice bounds out of range"]
                ELSE [n |-> [n EXCEPT !.body = Remove(@, 0)],
                      dest |-> [dest EXCEPT !.body =
                                  copyData(r.s, NumPairs(dest), data)],
                      panic |-> "none"]
                : r \in {Insert(dest.body, NumPairs(dest), Len(data))} })
         : data \in {Data(n.body, 0)} })

\* for !newLeaf.IsHalfFull() { l.Transfer(newLeaf) }
RECURSIVE transferUntilHalfFull(_, _)
transferUntilHalfFull(n, dest) ==
  IF IsHalfFull(dest) THEN [n |-> n, dest |-> dest, panic |-> "none"]
  ELSE Only({ IF t.panic # "none" THEN t ELSE transferUntilHalfFull(t.n, t.dest)
              : t \in {Transfer(n, dest)} })

\* The loop of Leaf.SplitInsert and InternalNode.SplitInsert
RECURSIVE splitLoop(_, _, _, _)
splitLoop(n, dest, newKey, newValue) ==
  IF IsHalfFull(dest)
  THEN Only({ [n |-> r.n, dest |-> dest,
               panic |-> IF r.ok THEN "none" ELSE "old must have space"]
              : r \in {NodeInsert(n, SearchSlotID(n, newKey).idx, newKey, newValue)} })
  ELSE IF NumPairs(n) = 0
  THEN [n |-> n, dest |-> dest, panic |-> "pair data too short"]
  ELSE IF compareBytes(PairAt(n, 0).Key, newKey) < 0
  THEN Only({ IF t.panic # "none" THEN t
              ELSE splitLoop(t.n, t.dest, newKey, newValue)
              : t \in {Transfer(n, dest)} })
  ELSE Only({ IF ~r.ok THEN [n |-> n, dest |-> dest, panic |-> "new must have space"]
              ELSE transferUntilHalfFull(n, r.n)
              : r \in {NodeInsert(dest, NumPairs(dest), newKey, newValue)} })

\* ---- Leaf
\* a created page seen as a leaf, before Initialize
ZeroLeaf ==
  [type |-> "LEAF", PrevPageID |-> 0, NextPageID |-> 0, body |-> NewSlotted(LeafBodySize)]

\* Leaf.Initialize
LeafInitialize(l) ==
  [l EXCEPT !.PrevPageID = InvalidPageID, !.NextPageID = InvalidPageID,
            !.body = Initialize(@)]

\* Leaf.SplitInsert: the key returned is that of the old leaf's first pair
SplitInsert(l, newLeaf, newKey, newValue) ==
  Only({ [n |-> r.n, dest |-> r.dest, key |-> PairAt(r.n, 0).Key,
          panic |-> IF r.panic = "none" /\ NumPairs(r.n) = 0
                    THEN "pair data too short" ELSE r.panic]
         : r \in {splitLoop(l, LeafInitialize(newLeaf), newKey, newValue)} })

\* Leaf.Update without the check of the free space
LeafUpdateUnchecked(l, slotID, newValue) ==
  IF slotID >= NumPairs(l) THEN [n |-> l, ok |-> FALSE]
  ELSE
    Only({
      Only({
        IF Len(newPairBytes) > MaxPairSize(l) THEN [n |-> l, ok |-> FALSE]
        ELSE Only({ IF ~r.ok THEN [n |-> [l EXCEPT !.body = r.s], ok |-> FALSE]
                    ELSE [n |-> [l EXCEPT !.body = copyData(r.s, slotID, newPairBytes)],
                          ok |-> TRUE]
                    : r \in {Insert(Remove(l.body, slotID), slotID,
                                    Len(newPairBytes))} })
        : newPairBytes \in {ToBytes([Key |-> oldPair.Key, Value |-> newValue])} })
      : oldPair \in {PairAt(l, slotID)} })

\* Leaf.Update
LeafUpdate(l, slotID, newValue) ==
  IF slotID >= NumPairs(l) THEN [n |-> l, ok |-> FALSE]
  ELSE
    Only({
      Only({
        IF Len(newPairBytes) > MaxPairSize(l) THEN [n |-> l, ok |-> FALSE]
        ELSE IF Len(newPairBytes) - Len(ToBytes(oldPair)) > FreeSpace(l.body)
        THEN [n |-> l, ok |-> FALSE]
        ELSE Only({ IF ~r.ok THEN [n |-> [l EXCEPT !.body = r.s], ok |-> FALSE]
                    ELSE [n |-> [l EXCEPT !.body = copyData(r.s, slotID, newPairBytes)],
                          ok |-> TRUE]
                    : r \in {Insert(Remove(l.body, slotID), slotID,
                                    Len(newPairBytes))} })
        : newPairBytes \in {ToBytes([Key |-> oldPair.Key, Value |-> newValue])} })
      : oldPair \in {PairAt(l, slotID)} })

\* ---- InternalNode
\* a created page seen as an internal node
ZeroInternal ==
  [type |-> "BRANCH", RightChild |-> 0, body |-> NewSlotted(InternalBodySize)]

\* SearchChildIdx that stays left of a key equal to the one looked for
SearchChildIdxNoStep(n, key) == SearchSlotID(n, key).idx

\* InternalNode.SearchChildIdx
SearchChildIdx(n, key) ==
  Only({ IF s.found THEN s.idx + 1 ELSE s.idx : s \in {SearchSlotID(n, key)} })

\* InternalNode.ChildAt
ChildAt(n, childIdx) ==
  IF childIdx = NumPairs(n) THEN n.RightChild
  ELSE PageIDFromBytes(PairAt(n, childIdx).Value)

\* InternalNode.SearchChild
SearchChild(n, key) == ChildAt(n, SearchChildIdx(n, key))

\* InternalNode.Initialize with the two children taken for each other
InternalInitializeSwapped(n, key, leftChild, rightChild) ==
  [NodeInsert([n EXCEPT !.body = Initialize(@)], 0, key, PageIDToBytes(rightChild)).n
     EXCEPT !.RightChild = leftChild]

\* InternalNode.Initialize
InternalInitialize(n, key, leftChild, rightChild) ==
  [NodeInsert([n EXCEPT !.body = Initialize(@)], 0, key, PageIDToBytes(leftChild)).n
     EXCEPT !.RightChild = rightChild]

\* InternalNode.FillRightChild
FillRightChild(n) ==
  Only({ [n |-> [n EXCEPT !.body = Remove(@, NumPairs(n) - 1),
                          !.RightChild = PageIDFromBytes(pair.Value)],
          key |-> pair.Key]
         : pair \in {PairAt(n, NumPairs(n) - 1)} })

\* InternalNode.SplitInsert
InternalSplitInsert(n, newNode, newKey, newPageId) ==
  Only({ IF r.panic # "none"
         THEN [n |-> r.n, dest |-> r.dest, key |-> <<>>, panic |-> r.panic]
         ELSE Only({ [n |-> r.n, dest |-> f.n, key |-> f.key, panic |-> "none"]
                     : f \in {FillRightChild(r.dest)} })
         : r \in {splitLoop(n, [newNode EXCEPT !.body = Initialize(@)],
                            newKey, PageIDToBytes(newPageId))} })

\* ---- BTree over pages: page id p is pages[p + 1]; the buffer pool holds
\* ---- every page, CreateBuffer appends a page
NoSplit == [Key |-> <<>>, ChildPageId |-> InvalidPageID]

\* BTree.MetaPageID: the first page CreateBTree creates in an empty heap file
MetaPageID == 0

\* CreateBTree: the meta page, then the root, an initialized leaf
CreateBTree ==
  << [type |-> "META", RootPageID |-> 1], LeafInitialize(ZeroLeaf) >>

\* The pages of insertInternal after a leaf split that leaves the previous
\* leaf pointing at the old leaf
linkLeavesNoPrev(pages, pid, prevLeafPageId, sp) ==
  Append([pages EXCEPT ![pid + 1] = sp.n],
         [sp.dest EXCEPT !.NextPageID = pid,
                         !.PrevPageID = IF Valid(prevLeafPageId)
                                        THEN prevLeafPageId ELSE @])

\* The pages of insertInternal after a leaf split: the new leaf is the page
\* CreateBuffer made, the previous leaf's next is the new leaf, the old leaf is
\* sp.n (its prev was set to the new leaf before SplitInsert), the new leaf is
\* sp.dest with next = the old leaf and prev = the previous leaf if there is one
linkLeaves(pages, pid, prevLeafPageId, sp) ==
  Append([(IF Valid(prevLeafPageId)
           THEN [pages EXCEPT ![prevLeafPageId + 1].NextPageID = Len(pages)]
           ELSE pages) EXCEPT ![pid + 1] = sp.n],
         [sp.dest EXCEPT !.NextPageID = pid,
                         !.PrevPageID = IF Valid(prevLeafPageId)
                                        THEN prevLeafPageId ELSE @])

\* BTree.insertInternal; dirty holds the page ids of the buffers whose IsDirty
\* the call sets
RECURSIVE insertInternal(_, _, _, _)
insertInternal(pages, pid, key, value) ==
  Only({
    IF node.type = "LEAF"
    THEN
      Only({
        IF s.found
        THEN [pages |-> pages, split |-> NoSplit, err |-> "ErrDuplicateKey",
              panic |-> "none", dirty |-> {}]
        ELSE
          Only({
            IF ins.ok
            THEN [pages |-> [pages EXCEPT ![pid + 1] = ins.n], split |-> NoSplit,
                  err |-> "nil", panic |-> "none", dirty |-> {pid}]
            ELSE
              \* the leaf is split: the new leaf goes before it in the chain
              Only({
                [pages |-> linkLeaves(pages, pid, node.PrevPageID, sp),
                 split |-> [Key |-> sp.key, ChildPageId |-> Len(pages)],
                 err |-> "nil", panic |-> sp.panic,
                 dirty |-> {pid} \cup {p \in {node.PrevPageID} : Valid(p)}]
                : sp \in {SplitInsert([node EXCEPT !.PrevPageID = Len(pages)],
                                      LeafInitialize(ZeroLeaf), key, value)} })
            : ins \in {NodeInsert(node, s.idx, key, value)} })
        : s \in {SearchSlotID(node, key)} })
    ELSE
      Only({
        Only({
          IF r.err # "nil" \/ r.panic # "none" \/ r.split = NoSplit THEN r
          ELSE
            Only({
              IF ins.ok
              THEN [pages |-> [r.pages EXCEPT ![pid + 1] = ins.n], split |-> NoSplit,
                    err |-> "nil", panic |-> "none", dirty |-> r.dirty \cup {pid}]
              ELSE
                \* the internal node is split
                Only({
                  [pages |-> Append([r.pages EXCEPT ![pid + 1] = sp.n], sp.dest),
                   split |-> [Key |-> sp.key, ChildPageId |-> Len(r.pages)],
                   err |-> "nil", panic |-> sp.panic,
                   dirty |-> r.dirty \cup {pid, Len(r.pages)}]
                  : sp \in {InternalSplitInsert(node, ZeroInternal, r.split.Key,
                                                r.split.ChildPageId)} })
              : ins \in {NodeInsert(node, childIdx, r.split.Key,
                                    PageIDToBytes(r.split.ChildPageId))} })
          : r \in {insertInternal(pages, ChildAt(node, childIdx), key, value)} })
        : childIdx \in {SearchChildIdx(node, key)} })
    : node \in {pages[pid + 1]} })

\* BTree.Insert
BTreeInsert(pages, key, value) ==
  Only({
    IF r.err # "nil" \/ r.panic # "none" \/ r.split = NoSplit
    THEN [pages |-> r.pages, err |-> r.err, panic |-> r.panic, dirty |-> r.dirty]
    ELSE [pages |->
            [Append(r.pages,
                    InternalInitialize(ZeroInternal, r.split.Key,
                                       r.split.ChildPageId, pages[1].RootPageID))
               EXCEPT ![1].RootPageID = Len(r.pages)],
          err |-> "nil", panic |-> "none", dirty |-> r.dirty \cup {MetaPageID}]
    : r \in {insertInternal(pages, pages[1].RootPageID, key, value)} })

\* BTree.updateInternal
RECURSIVE updateInternal(_, _, _, _)
updateInternal(pages, pid, key, newValue) ==
  Only({
    IF node.type = "LEAF"
    THEN Only({
           IF ~s.found THEN [pages |-> pages, err |-> "ErrKeyNotFound", dirty |-> {}]
           ELSE Only({ [pages |-> [pages EXCEPT ![pid + 1] = u.n],
                        err |-> IF u.ok THEN "nil" ELSE "ErrKeyNotFound",
                        dirty |-> IF u.ok THEN {pid} ELSE {}]
                       : u \in {LeafUpdate(node, s.idx, newValue)} })
           : s \in {SearchSlotID(node, key)} })
    ELSE updateInternal(pages, ChildAt(node, SearchChildIdx(node, key)), key, newValue)
    : node \in {pages[pid + 1]} })

\* BTree.Update
BTreeUpdate(pages, key, newValue) ==
  updateInternal(pages, pages[1].RootPageID, key, newValue)

\* BTree.Delete: descend as Update does; KeyNotFound when the leaf has no such
\* key, else the slot is removed from the leaf and nothing is merged
RECURSIVE deleteInternal(_, _, _)
deleteInternal(pages, pid, key) ==
  Only({
    IF node.type = "LEAF"
    THEN Only({
           IF ~s.found THEN [pages |-> pages, err |-> "ErrKeyNotFound"]
           ELSE [pages |-> [pages EXCEPT ![pid + 1].body = Remove(@, s.idx)],
                 err |-> "nil"]
           : s \in {SearchSlotID(node, key)} })
    ELSE deleteInternal(pages, ChildAt(node, SearchChildIdx(node, key)), key)
    : node \in {pages[pid + 1]} })

BTreeDelete(pages, key) == deleteInternal(pages, pages[1].RootPageID, key)

\* ---- Iter: buffer is the page id of the leaf, slotID the position in it
\* Iter.Get
IterGet(pages, it) ==
  Only({
    IF node.type = "LEAF" /\ it.slotID < NumPairs(node)
    THEN Only({ [Key |-> pair.Key, Value |-> pair.Value, ok |-> TRUE]
                : pair \in {PairAt(node, it.slotID)} })
    ELSE [Key |-> <<>>, Value |-> <<>>, ok |-> FALSE]
    : node \in {pages[it.buffer + 1]} })

\* Iter.Advance without the step to the next leaf
AdvanceInLeaf(pages, it) == [it EXCEPT !.slotID = @ + 1]

\* Iter.Advance
Advance(pages, it) ==
  Only({
    IF node.type # "LEAF" THEN [it EXCEPT !.slotID = @ + 1]
    ELSE IF it.slotID + 1 < NumPairs(node) THEN [it EXCEPT !.slotID = @ + 1]
    ELSE IF Valid(node.NextPageID) THEN [buffer |-> node.NextPageID, slotID |-> 0]
    ELSE [it EXCEPT !.slotID = @ + 1]
    : node \in {pages[it.buffer + 1]} })

\* BTree.searchInternal
RECURSIVE searchInternal(_, _, _)
searchInternal(pages, pid, searchMode) ==
  Only({
    IF node.type = "LEAF"
    THEN Only({ IF NumPairs(node) = slotID
                THEN Advance(pages, [buffer |-> pid, slotID |-> slotID])
                ELSE [buffer |-> pid, slotID |-> slotID]
                : slotID \in {IF searchMode.IsStart THEN 0
                              ELSE SearchSlotID(node, searchMode.Key).idx} })
    ELSE searchInternal(pages,
                        IF searchMode.IsStart THEN ChildAt(node, 0)
                        ELSE SearchChild(node, searchMode.Key),
                        searchMode)
    : node \in {pages[pid + 1]} })

\* BTree.Search
Search(pages, searchMode) ==
  searchInternal(pages, pages[1].RootPageID, searchMode)

NewSearchModeStart == [IsStart |-> TRUE, Key |-> <<>>]
NewSearchModeKey(key) == [IsStart |-> FALSE, Key |-> key]

\* ---- the calls on one tree
\* the keys of one byte
TreeKeys == {<<k>> : k \in 1..MaxKeys}
\* the value a key is inserted with: long for the even keys, one byte for the rest
ValueOf(key) ==
  IF Len(key) > 1 THEN <<>>
  ELSE [i \in 1..(IF key[1] % 2 = 0 THEN MaxValueLen ELSE 1) |-> 7]
\* keys of LongKeyLen bytes, inserted with an empty value
LongKeys == {[i \in 1..LongKeyLen |-> IF i = 1 THEN k ELSE 0] : k \in 1..MaxLongKeys}
\* the values of Update: empty, as long as any inserted, and one byte more
NewValues == {[i \in 1..n |-> 9] : n \in {0, MaxValueLen, MaxValueLen + 1}}
\* a value that makes a pair longer than MaxPairSize
TooLong == [i \in 1..MaxPairSize(ZeroLeaf) |-> 9]

\* ---- BTree.Insert(key, ValueOf(key)) with a pair no longer than MaxPairSize
BTInsert(key) ==
  /\ btBudget > 0
  /\ Len(ToBytes([Key |-> key, Value |-> ValueOf(key)])) <= MaxPairSize(ZeroLeaf)
  /\ \E r \in {BTreeInsert(btPages, key, ValueOf(key))} :
       /\ btCall' = [op |-> "insert", key |-> key, value |-> ValueOf(key),
                     err |-> r.err, panic |-> r.panic]
       /\ btPages' = r.pages
       /\ btKV' = IF r.err = "nil" /\ r.panic = "none"
                  THEN btKV \cup {<<key, ValueOf(key)>>} ELSE btKV
       /\ btBudget' = IF r.panic = "none" THEN btBudget - 1 ELSE 0
       /\ btDirty' = btDirty \cup r.dirty
  /\ UNCHANGED <<btPageSize, btUpdBudget, btDelBudget, btDisk>>
  /\ UNCHANGED <<lockVars, scenF, tmVars, logVars, pageVars, bufVars, slotVars, fnVars>>

\* ---- BTree.Update(key, newValue)
BTUpdate(key, newValue) ==
  /\ btBudget > 0
  /\ btUpdBudget > 0
  /\ \E r \in {BTreeUpdate(btPages, key, newValue)} :
       /\ btCall' = [op |-> "update", key |-> key, value |-> newValue,
                     err |-> r.err, panic |-> "none"]
       /\ btPages' = r.pages
       /\ btKV' = IF r.err = "nil"
                  THEN {kv \in btKV : kv[1] # key} \cup {<<key, newValue>>} ELSE btKV
       /\ btDirty' = btDirty \cup r.dirty
  /\ btBudget' = btBudget - 1
  /\ btUpdBudget' = btUpdBudget - 1
  /\ UNCHANGED <<btPageSize, btDelBudget, btDisk>>
  /\ UNCHANGED <<lockVars, scenF, tmVars, logVars, pageVars, bufVars, slotVars, fnVars>>

\* ---- BTree.Delete(key)
BTDelete(key) ==
  /\ btBudget > 0
  /\ btDelBudget > 0
  /\ \E r \in {BTreeDelete(btPages, key)} :
       /\ btCall' = [op |-> "delete", key |-> key, value |-> <<>>,
                     err |-> r.err, panic |-> "none"]
       /\ btPages' = r.pages
       /\ btKV' = IF r.err = "nil" THEN {kv \in btKV : kv[1] # key} ELSE btKV
  /\ btBudget' = btBudget - 1
  /\ btDelBudget' = btDelBudget - 1
  /\ UNCHANGED <<btPageSize, btUpdBudget>>
  /\ UNCHANGED <<lockVars, scenF, tmVars, logVars, pageVars, bufVars, slotVars, fnVars, heapVars>>

\* ------------------------------------------------------------------ Init
\* NewLockManager
InitLocks ==
  /\ lockTable = [r \in RIDs |-> <<>>]
  /\ waitFor = [t \in Txns |-> {}]
  /\ pc = [t \in Txns |-> "idle"]
  /\ waitRid = [t \in Txns |-> 0]
  /\ res = [t \in Txns |-> "none"]
  /\ lockCall = <<"none", 0>>
  /\ scenF = "s0"

\* NewLogManager on an empty file, and pages holding 0 everywhere
InitLog ==
  /\ log = <<>>
  /\ nextLSN = 1
  /\ durable = 0
  /\ logFile = <<>>
  /\ filePos = 0
  /\ readBack = <<>>
  /\ logCall = "none"
  /\ cache = [r \in RIDs |-> 0]
  /\ disk = [r \in RIDs |-> 0]
  /\ sys = "up"

\* NewBufferPoolManager over NewBufferPool(poolSize) and a disk manager on an
\* empty heap file
InitPool(poolSize) ==
  /\ buffers = NewBufferPool(poolSize)
  /\ nextVictimID = 0
  /\ pageTable = <<>>
  /\ heapFile = [pages |-> [p \in PageIDs |-> 0], size |-> 0, synced |-> TRUE]
  /\ nextPageId = 0
  /\ bpmCall = [op |-> "none", page |-> InvalidPageID, frame |-> 0, err |-> "nil"]
  /\ written = [p \in PageIDs |-> 0]

\* NewSlotted over a zeroed body, then Initialize
InitSlotted ==
  /\ slotted = Initialize(NewSlotted(BodySize))
  /\ slotVals = <<>>
  /\ slotCall = [op |-> "none", index |-> 0, ok |-> TRUE]

\* CreateBTree
InitBTree(pageSize) ==
  /\ btPageSize = pageSize
  /\ btPages = CreateBTree
  /\ btKV = {}
  /\ btCall = [op |-> "none", key |-> <<>>, value |-> <<>>, err |-> "nil",
               panic |-> "none"]
  /\ btDirty = {}
  /\ btDisk = <<>>

\* a run that makes no call on the tree
NoTreeCalls ==
  /\ InitBTree(TreePageSize)
  /\ btBudget = 0
  /\ btUpdBudget = 0
  /\ btDelBudget = 0

\* a run that makes no call on the codecs and no deadlock check of its own
NoCodec == [op |-> "none"]
NoDfs == [op |-> "none"]
NoBranch == [op |-> "none"]
NoFnCalls ==
  /\ codec = NoCodec
  /\ dfs = NoDfs
  /\ branch = NoBranch

\* The lock manager alone, as lock_test.go sets it up: a transaction manager
\* without log, lock or recovery manager has begun every transaction.
Init ==
  /\ InitLocks
  /\ InitLog
  /\ InitPool(1)
  /\ wrBudget = 0
  /\ bufBudget = 0
  /\ InitSlotted
  /\ slotBudget = 0
  /\ NoTreeCalls
  /\ NoFnCalls
  /\ txnState = [t \in Txns |-> "Active"]
  /\ nextTxnID = Cardinality(Txns) + 1
  /\ activeTxns = Txns
  /\ tmOp = NoOp
  /\ last = <<"none", 0, "none">>
  /\ fate = [t \in Txns |-> "none"]
  /\ lockBudget = MaxLockCalls
  /\ callBudget = 0
  /\ updBudget = 0
  /\ ioBudget = 0

\* NewTransactionManagerWithManagers over a new lock manager, an empty log
\* and zeroed pages
InitManagers ==
  /\ InitLocks
  /\ InitLog
  /\ InitPool(1)
  /\ wrBudget = 0
  /\ bufBudget = 0
  /\ InitSlotted
  /\ txnState = [t \in Txns |-> "None"]
  /\ nextTxnID = 1
  /\ activeTxns = {}
  /\ tmOp = NoOp
  /\ last = <<"none", 0, "none">>
  /\ fate = [t \in Txns |-> "none"]

\* ------------------------------------------- the lock-manager specification
NextLock ==
  \/ \E t \in Txns, r \in RIDs : LockShared(t, r)
  \/ \E t \in Txns, r \in RIDs : LockExclusive(t, r)
  \/ \E t \in Txns : Wake(t)
  \/ \E t \in Txns, r \in RIDs : Unlock(t, r)
  \/ \E t \in Txns : UnlockAll(t)

SpecLock == Init /\ [][NextLock]_vars

\* ------------------------------------ the transaction-manager specification

InitTxn ==
  /\ InitManagers
  /\ slotBudget = 0
  /\ NoTreeCalls
  /\ NoFnCalls
  /\ lockBudget = MaxTxnLockCalls
  /\ callBudget = MaxCalls
  /\ updBudget = MaxUpd
  /\ ioBudget = MaxIOFail

\* The clients keep two-phase locking: locks are released by Commit and Abort.
NextTxn ==
  \/ Begin
  \/ \E t \in Txns, r \in RIDs : LockShared(t, r)
  \/ \E t \in Txns, r \in RIDs : LockExclusive(t, r)
  \/ \E t \in Txns : Wake(t)
  \/ \E t \in Txns, r \in RIDs : Update(t, r)
  \/ \E t \in Txns : Commit(t)
  \/ CommitAppend
  \/ CommitFlush
  \/ CommitUnlock
  \/ CommitRemove
  \/ CommitTerminate
  \/ \E t \in Txns : Abort(t)
  \/ AbortAborted
  \/ AbortRollback
  \/ AbortAppend
  \/ AbortUnlock
  \/ AbortRemove
  \/ AbortTerminate

SpecTxn == InitTxn /\ [][NextTxn]_vars

\* ------------------------------------------ the state-machine specification

InitState ==
  /\ InitManagers
  /\ slotBudget = 0
  /\ NoTreeCalls
  /\ NoFnCalls
  /\ lockBudget = 0
  /\ callBudget = MaxStateCalls
  /\ updBudget = 0
  /\ ioBudget = MaxIOFail

\* Commit and Abort called on the transactions and through the manager.
NextState ==
  \/ Begin
  \/ \E t \in Txns : TransactionCommit(t)
  \/ \E t \in Txns : TransactionAbort(t)
  \/ \E t \in Txns : TransactionAbortDone(t)
  \/ \E t \in Txns : Commit(t)
  \/ CommitAppend
  \/ CommitFlush
  \/ CommitUnlock
  \/ CommitRemove
  \/ CommitTerminate
  \/ \E t \in Txns : Abort(t)
  \/ AbortAborted
  \/ AbortRollback
  \/ AbortAppend
  \/ AbortUnlock
  \/ AbortRemove
  \/ AbortTerminate

SpecState == InitState /\ [][NextState]_vars

\* ------------------------------------------------ the recovery specification

InitRec ==
  /\ InitManagers
  /\ slotBudget = 0
  /\ NoTreeCalls
  /\ NoFnCalls
  /\ lockBudget = MaxRecLockCalls
  /\ callBudget = MaxCalls
  /\ updBudget = MaxRecUpd
  /\ ioBudget = 0

\* Transactions under two-phase locking, pages written back at any time, and
\* at some point the pool is dropped and Recover runs.
NextRec ==
  \/ Begin
  \/ \E t \in Txns, r \in RIDs : LockExclusive(t, r)
  \/ \E t \in Txns : Wake(t)
  \/ \E t \in Txns, r \in RIDs : Update(t, r)
  \/ \E t \in Txns : Commit(t)
  \/ CommitAppend
  \/ CommitFlush
  \/ CommitUnlock
  \/ CommitRemove
  \/ CommitTerminate
  \/ \E t \in Txns : Abort(t)
  \/ AbortAborted
  \/ AbortRollback
  \/ AbortAppend
  \/ AbortUnlock
  \/ AbortRemove
  \/ AbortTerminate
  \/ \E r \in RIDs : FlushPage(r)
  \/ Crash
  \/ Recover

SpecRec == InitRec /\ [][NextRec]_vars

\* --------------------------------------------------------- lock properties


\* C1: in every reachable state, for every RID, a granted Exclusive lock of one
\* transaction excludes every granted lock (Shared or Exclusive) of any other
\* transaction on that RID.
C1_ExclusiveExcludes ==
  \A r \in RIDs : \A i, j \in GrantedIdx(lockTable[r]) :
    (lockTable[r][i].mode = "X" /\ i # j)
       => lockTable[r][j].txn = lockTable[r][i].txn

\* C1 witness: one RID is held Exclusive while another transaction waits for it,
\* and another RID is held Shared by two distinct transactions at once.
C1_Witness ==
  /\ \E r \in RIDs, t, u \in Txns :
       t # u /\ HoldsX(t, r) /\ (PendingOn(u, r, "S") \/ PendingOn(u, r, "X"))
  /\ \E r \in RIDs, t, u \in Txns : t # u /\ HoldsS(t, r) /\ HoldsS(u, r)

\* C2: in the run T1: X(rid1); T2: X(rid2); T1: X(rid2) blocks; T2: X(rid1), the
\* only Deadlock result goes to T2's second request; T1's pending request is not
\* failed; when T2 then unlocks rid2, T1's request is granted and T1's call
\* returns success holding rid2.
C2_DeadlockScenario ==
  /\ scenF = "s3" => (pc[1] = "wait" /\ res[1] = "blocked" /\ PendingOn(1, 2, "X"))
  /\ scenF = "s4" => /\ res[2] = "deadlock" /\ pc[2] = "idle"
                     /\ ~HasRequestOn(2, 1)
                     /\ pc[1] = "wait" /\ res[1] = "blocked" /\ PendingOn(1, 2, "X")
  /\ scenF = "s5" => (res[2] = "deadlock" /\ HoldsX(1, 2) /\ pc[1] = "woken")
  /\ scenF = "s6" => /\ res[1] = "ok" /\ res[2] = "deadlock"
                     /\ HoldsX(1, 2) /\ HoldsX(1, 1) /\ pc[1] = "idle"

\* C2 witness: the script has run to its end (T1's blocked call has returned).
C2_Witness == scenF = "s6"

\* C3 (as claimed): a Shared request that arrives while an Exclusive request of
\* another transaction is pending on the RID is not granted before that
\* Exclusive request.
C3_NoOvertaking ==
  [][\A r \in RIDs, tx, ts \in Txns :
       (/\ tx # ts
        /\ PendingOn(tx, r, "X")
        /\ ~HasRequestOn(ts, r)
        /\ \E i \in GrantedIdx(lockTable'[r]) :
              lockTable'[r][i].txn = ts /\ lockTable'[r][i].mode = "S")
       => ~(\E i \in PendingIdx(lockTable'[r]) : lockTable'[r][i].txn = tx)]_vars

\* C4: no pending request of a RID is granted in a step that leaves an earlier
\* pending request of the same RID ungranted.
C4_ArrivalOrder ==
  [][\A r \in RIDs : \A i, j \in PendingIdx(lockTable[r]) :
       (i < j /\ lockTable[r][j].txn \in Holders(lockTable'[r]))
          => lockTable[r][i].txn \notin Waiters(lockTable'[r])]_vars

\* C4 witness: T1 held X, T2 then T3 queued for X; T1 released; T2 has been
\* granted and woken while T3 is still pending behind it.
C4_Witness ==
  \E r \in RIDs :
    /\ lockTable[r] = <<Req(2, "X", TRUE), Req(3, "X", FALSE)>>
    /\ pc[2] = "woken" /\ pc[3] = "wait"

\* ---------------------------------------- the log-manager specification

\* A log manager on an empty file, with no transaction begun
InitLogManager ==
  /\ InitManagers
  /\ slotBudget = 0
  /\ NoTreeCalls
  /\ NoFnCalls
  /\ lockBudget = 0
  /\ callBudget = 0
  /\ updBudget = 0
  /\ ioBudget = MaxIOFail

NextLog ==
  \/ \E rec \in LogInputs : AppendLogCall(rec)
  \/ ReadLog
  \/ Reopen

SpecLog == InitLogManager /\ [][NextLog]_vars

\* ---------------------------------------- the buffer-pool specification

\* A buffer pool manager with a pool of 1..MaxPool frames
InitBuf ==
  /\ InitLocks
  /\ InitLog
  /\ \E poolSize \in 1..MaxPool : InitPool(poolSize)
  /\ txnState = [t \in Txns |-> "None"]
  /\ nextTxnID = 1
  /\ activeTxns = {}
  /\ tmOp = NoOp
  /\ last = <<"none", 0, "none">>
  /\ fate = [t \in Txns |-> "none"]
  /\ lockBudget = 0
  /\ callBudget = 0
  /\ updBudget = 0
  /\ ioBudget = MaxBufIOFail
  /\ wrBudget = MaxWrites
  /\ bufBudget = MaxBufCalls
  /\ InitSlotted
  /\ slotBudget = 0
  /\ NoTreeCalls
  /\ NoFnCalls

NextBuf ==
  \/ \E pageID \in PageIDs : FetchPage(pageID)
  \/ CreatePage
  \/ Flush
  \/ WriteBuffer

SpecBuf == InitBuf /\ [][NextBuf]_vars

\* --------------------------------------- recovery and transaction properties

MaxOf(S) == CHOOSE x \in S : \A y \in S : y <= x

\* the transactions with a Commit record in the log
CommittedIn(lg) == {lg[i].txn : i \in {j \in 1..Len(lg) : lg[j].type = "Commit"}}

\* the value a page range has after applying the committed transactions'
\* new values in log order and none of the others (0: never written)
Expected(lg, r) ==
  LET I == {i \in 1..Len(lg) : /\ lg[i].type = "Update"
                               /\ lg[i].rid = r
                               /\ lg[i].txn \in CommittedIn(lg)}
  IN IF I = {} THEN 0 ELSE lg[MaxOf(I)].new

\* the transaction that wrote a value (0: nobody, the initial page)
Writer(v) == v \div 10

\* t's records of the given type
RecordsOf(lg, t, ty) == {i \in 1..Len(lg) : lg[i].txn = t /\ lg[i].type = ty}

\* t's Update records on r that come after t's last Commit or Abort record
OpenUpdates(lg, t, r) ==
  {i \in UpdatesOf(lg, t) :
     /\ lg[i].rid = r
     /\ \A j \in RecordsOf(lg, t, "Commit") \cup RecordsOf(lg, t, "Abort") : j < i}

\* t has a Commit record that a successful Sync covered
DurablyCommitted(t) == \E c \in RecordsOf(log, t, "Commit") : c <= durable

\* C5: once Recover has returned after a crash, every page range holds, in the
\* pool and in the file, the new value of the last Update of a committed
\* transaction on it in log order, or its initial value if no committed
\* transaction updated it: the Updates of every transaction that did not
\* commit (active or aborted) are undone.
C5_RecoveredState ==
  sys = "recovered" =>
    \A r \in RIDs : disk[r] = Expected(log, r) /\ cache[r] = Expected(log, r)

\* C6: a Rollback of transaction t changes no page range outside t's Update
\* records since its last Commit/Abort record, and when t has neither a Commit
\* nor an Abort record it leaves every range t updated, also one updated
\* several times, with the old value of t's first Update on it.
C6_RollbackRestores ==
  [][(tmOp.op = "abort" /\ tmOp.step = "rollback" /\ tmOp'.step = "append")
       => \A r \in RIDs :
            LET t == tmOp.txn
                U == OpenUpdates(log, t, r)
            IN /\ U = {} => cache'[r] = cache[r]
               /\ (U # {} /\ RecordsOf(log, t, "Commit") = {}
                           /\ RecordsOf(log, t, "Abort") = {})
                    => cache'[r] = log[MinOf(U)].old]_vars

\* the Rollback of a transaction that updated one range twice has just run,
\* and a range written by another transaction kept that transaction's value
C6_Witness ==
  /\ tmOp.op = "abort" /\ tmOp.step = "append"
  /\ RecordsOf(log, tmOp.txn, "Abort") = {}
  /\ \E r \in RIDs :
       /\ Cardinality(OpenUpdates(log, tmOp.txn, r)) >= 2
       /\ cache[r] = 0
       /\ \E q \in RIDs : q # r /\ Writer(cache[q]) \notin {0, tmOp.txn}

\* C7: once a Commit of t has returned successfully, t has a Commit record
\* that a successful Sync covers and all of t's Update records precede it; and
\* in no log does an Update record of a transaction follow a Commit record of
\* the same transaction.
C7_CommitDurable ==
  /\ \A t \in Txns :
       (fate[t] = "committed" /\ txnState[t] = "Terminated")
         => \E c \in RecordsOf(log, t, "Commit") :
              /\ c <= durable
              /\ \A i \in UpdatesOf(log, t) : i < c
  /\ \A t \in Txns : \A c \in RecordsOf(log, t, "Commit") :
       \A i \in UpdatesOf(log, t) : i < c

\* transaction 1 committed after updating a page, with an Update of
\* transaction 2 in the log before the Commit record
C7_Witness ==
  /\ fate[1] = "committed" /\ txnState[1] = "Terminated"
  /\ UpdatesOf(log, 1) # {}
  /\ \E c \in RecordsOf(log, 1, "Commit") : \E i \in UpdatesOf(log, 2) : i < c

\* C8: a Commit of the manager goes on only for an Active transaction (for any
\* other it returns an error and leaves the log, the lock table and the state
\* alone); its statements run in the order Committed, append, flush, unlock,
\* remove, Terminated; a lock of the transaction is released only by the
\* unlock statement and only when the Commit record is durable; when it
\* returns success the transaction is out of the active map, has no granted
\* lock and is Terminated.
C8_CommitOrder ==
  [][LET t == IF tmOp.op = "commit" THEN tmOp.txn ELSE tmOp'.txn IN
     /\ (tmOp.op = "none" /\ tmOp'.op = "commit")
          => /\ txnState[t] = "Active" /\ txnState'[t] = "Committed"
             /\ tmOp'.step = "append"
             /\ log' = log /\ lockTable' = lockTable
     /\ (tmOp = NoOp /\ tmOp' = NoOp /\ last' # last /\ last'[1] = "commit")
          => /\ last'[3] \in {"alreadyCommitted", "notActive"}
             /\ txnState[last'[2]] # "Active"
             /\ txnState' = txnState /\ log' = log /\ nextLSN' = nextLSN
             /\ lockTable' = lockTable /\ activeTxns' = activeTxns
     /\ (tmOp.op = "commit" /\ tmOp' # tmOp)
          => \/ /\ tmOp.step = "append" /\ tmOp' = [tmOp EXCEPT !.step = "flush"]
                /\ Len(log') = Len(log) + 1
                /\ log'[Len(log')].type = "Commit" /\ log'[Len(log')].txn = t
                /\ lockTable' = lockTable
             \/ /\ tmOp.step = "flush" /\ tmOp' = [tmOp EXCEPT !.step = "unlock"]
                /\ durable' = Len(log) /\ log' = log
                /\ lockTable' = lockTable
             \/ /\ tmOp.step = "unlock" /\ tmOp' = [tmOp EXCEPT !.step = "remove"]
                /\ DurablyCommitted(t)
                /\ \A r \in RIDs : t \notin Holders(lockTable'[r])
                /\ t \in activeTxns /\ txnState'[t] = "Committed"
             \/ /\ tmOp.step = "remove" /\ tmOp' = [tmOp EXCEPT !.step = "terminate"]
                /\ t \notin activeTxns' /\ txnState'[t] = "Committed"
             \/ /\ tmOp.step = "terminate" /\ tmOp' = NoOp
                /\ last' = <<"commit", t, "ok">>
                /\ txnState'[t] = "Terminated"
                /\ t \notin activeTxns'
                /\ \A r \in RIDs : t \notin Holders(lockTable'[r])
             \/ /\ tmOp.step \in {"append", "flush"} /\ tmOp' = NoOp
                /\ last' = <<"commit", t, "logError">>
                /\ lockTable' = lockTable
     /\ \A u \in Txns, r \in RIDs :
          (tmOp.op = "commit" /\ tmOp.txn = u
             /\ u \in Holders(lockTable[r]) /\ u \notin Holders(lockTable'[r]))
            => (tmOp.step = "unlock" /\ DurablyCommitted(u))]_vars

\* a Commit of transaction 1, which had updated a page under its Exclusive
\* lock, has returned success, and its release gave the lock to transaction 2
C8_Witness ==
  /\ last = <<"commit", 1, "ok">>
  /\ tmOp = NoOp
  /\ \E r \in RIDs :
       /\ \E i \in UpdatesOf(log, 1) : log[i].rid = r
       /\ 2 \in Holders(lockTable[r])
       /\ res[2] = "blocked"

\* C9: while a page range still holds a value written by a transaction that
\* the manager's Abort was called for, no other transaction has a granted lock
\* on that RID.
C9_RolledBackBeforeRelease ==
  \A t \in Txns, r \in RIDs :
    (fate[t] = "aborted" /\ Writer(cache[r]) = t)
      => \A u \in Txns \ {t} : u \notin Holders(lockTable[r])

\* the state changes the state machine has
AllowedTransitions ==
  {<<"None", "Active">>,
   <<"Active", "Committed">>, <<"Committed", "Terminated">>,
   <<"Active", "Failed">>, <<"Failed", "Aborted">>, <<"Aborted", "Terminated">>}

\* C10: every change of a transaction's state is one of Active -> Committed,
\* Committed -> Terminated, Active -> Failed, Failed -> Aborted and
\* Aborted -> Terminated (after the Begin that creates it Active); no state
\* follows Terminated.
C10_StateMachine ==
  [][\A t \in Txns :
       txnState'[t] # txnState[t]
         => <<txnState[t], txnState'[t]>> \in AllowedTransitions]_vars

\* C11: a Commit or Abort call on a transaction that is already Committed,
\* Aborted or Terminated changes nothing: a Commit on a Committed or Terminated
\* transaction and an Abort on an Aborted one return their error, and while an
\* Abort of the manager runs on a Terminated transaction no log record is
\* appended, no page is rolled back, no lock is released and no state changes.
C11_RepeatedTermination ==
  [][/\ (tmOp.op = "abort" /\ txnState[tmOp.txn] = "Terminated")
          => /\ Len(log') > Len(log) => log'[Len(log')].txn # tmOp.txn
             /\ \A r \in RIDs :
                  /\ Writer(cache[r]) = tmOp.txn => cache'[r] = cache[r]
                  /\ tmOp.txn \in Holders(lockTable[r])
                       => tmOp.txn \in Holders(lockTable'[r])
             /\ txnState'[tmOp.txn] = txnState[tmOp.txn]
     /\ (tmOp = NoOp /\ tmOp' = NoOp /\ last' # last
           /\ last'[1] \in {"commit", "txnCommit"}
           /\ txnState[last'[2]] \in {"Committed", "Terminated"})
          => /\ last'[3] = IF txnState[last'[2]] = "Committed"
                           THEN "alreadyCommitted" ELSE "notActive"
             /\ txnState' = txnState /\ log' = log /\ lockTable' = lockTable
     /\ (tmOp = NoOp /\ tmOp' = NoOp /\ last' # last
           /\ last'[1] = "txnAbort"
           /\ txnState[last'[2]] \in {"Aborted", "Terminated"})
          => /\ last'[3] = IF txnState[last'[2]] = "Aborted"
                           THEN "alreadyAborted" ELSE "ok"
             /\ txnState' = txnState /\ log' = log /\ lockTable' = lockTable]_vars

\* A really waits for B: A has a pending request on a RID on which B has a
\* granted one
ReallyWaits(a, b) ==
  \E r \in RIDs : a \in Waiters(lockTable[r]) /\ b \in Holders(lockTable[r])

\* C12: in every state the lock manager leaves, the wait-for graph has the edge
\* A -> B exactly when A has a pending request on some RID on which B holds a
\* granted lock.
C12_WaitForExact ==
  \A a, b \in Txns : (b \in waitFor[a]) <=> ReallyWaits(a, b)

\* C13: the LSNs of the records in the log file are 1, 2, 3, ... in file
\* order, and right after the file was reopened the next LSN is the last LSN
\* in the file + 1, or 1 for an empty file.
C13_DenseLSNs ==
  /\ \A i \in 1..Len(logFile) : logFile[i].lsn = i
  /\ logCall = "open"
       => nextLSN = IF Len(logFile) = 0 THEN 1 ELSE logFile[Len(logFile)].lsn + 1

ReturnsBuffer ==
  /\ bufBudget' # bufBudget
  /\ bpmCall'.op \in {"fetch", "create"}
  /\ bpmCall'.err = "nil"

\* C15: when a call reuses a frame whose buffer is dirty, the buffer's bytes
\* are in the heap file at the page the caller wrote them to, and the buffer
\* FetchPage(p) returns holds the bytes last written to page p.
C15_NoLostUpdate ==
  [][ReturnsBuffer =>
       LET f == bpmCall'.frame
           reused == bpmCall'.op = "create" \/ bpmCall'.page \notin DOMAIN pageTable
       IN /\ (reused /\ buffers[f].Buffer.IsDirty)
               => ReadPageData(heapFile', buffers[f].Buffer.PageID).data
                    = buffers[f].Buffer.Page
          /\ bpmCall'.op = "fetch"
               => buffers'[f].Buffer.Page = written[bpmCall'.page]]_vars

\* the step is a CreatePage call or a FetchPage call for a page that is not
\* in the page table: a call that asks Evict for a victim
NeedsVictim ==
  /\ bufBudget' # bufBudget
  /\ \/ bpmCall'.op = "create"
     \/ bpmCall'.op = "fetch" /\ bpmCall'.page \notin DOMAIN pageTable

\* how many frames the hand passes before it is at frame i
HandDistance(i) == (i - nextVictimID) % Size(buffers)

\* C16: a call that needs a victim takes the first frame from the hand on
\* whose UsageCount is 0 and decrements the counts of the frames the hand
\* passed; when no frame has UsageCount 0 the call fails with ErrNoFreeBuffer
\* and no page is evicted.
C16_ClockEviction ==
  [][NeedsVictim =>
       LET free == {i \in DOMAIN buffers : buffers[i].UsageCount = 0}
       IN IF free = {}
          THEN /\ bpmCall'.err = "ErrNoFreeBuffer"
               /\ pageTable' = pageTable
               /\ \A i \in DOMAIN buffers : buffers'[i].Buffer = buffers[i].Buffer
          ELSE LET v == CHOOSE i \in free :
                          \A j \in free : HandDistance(i) <= HandDistance(j)
               IN /\ bpmCall'.frame = v
                  /\ bpmCall'.err # "ErrNoFreeBuffer"
                  /\ \A i \in DOMAIN buffers :
                       HandDistance(i) < HandDistance(v)
                         => buffers'[i].UsageCount = buffers[i].UsageCount - 1]_vars

\* the step is a FetchPage call that returned a buffer
FetchReturns ==
  /\ bufBudget' # bufBudget
  /\ bpmCall'.op = "fetch"
  /\ bpmCall'.err = "nil"

\* what FetchPage leaves behind for a page that is in the page table
FetchHit ==
  LET f == pageTable[bpmCall'.page]
  IN /\ bpmCall'.frame = f
     /\ buffers'[f].UsageCount = buffers[f].UsageCount + 1
     /\ buffers'[f].Buffer = buffers[f].Buffer
     /\ heapFile' = heapFile
     /\ pageTable' = pageTable

\* what FetchPage leaves behind for a page that is not in the page table,
\* but for the frame's UsageCount
FetchMiss ==
  LET f == bpmCall'.frame
      old == buffers[f].Buffer.PageID
  IN /\ buffers'[f].Buffer.PageID = bpmCall'.page
     /\ buffers'[f].Buffer.Page = ReadPageData(heapFile', bpmCall'.page).data
     /\ ~buffers'[f].Buffer.IsDirty
     /\ bpmCall'.page \in DOMAIN pageTable' /\ pageTable'[bpmCall'.page] = f
     /\ old # bpmCall'.page => old \notin DOMAIN pageTable'

\* C17: FetchPage of a cached page increments the frame's UsageCount and
\* returns that frame without disk I/O; FetchPage of a page that is not cached
\* returns a victim frame that holds the page as read from disk (zeros past
\* EOF), clean, with UsageCount 1, mapped in place of the victim's old page.
C17_FetchPage ==
  [][FetchReturns =>
       IF bpmCall'.page \in DOMAIN pageTable
       THEN FetchHit
       ELSE FetchMiss /\ buffers'[bpmCall'.frame].UsageCount = 1]_vars

\* C18: no two PageIDs of the page table map to the same frame, and the
\* frame that the page table gives for a PageID has that PageID in its
\* buffer.
C18_PageTable ==
  /\ \A p, q \in DOMAIN pageTable : p # q => pageTable[p] # pageTable[q]
  /\ \A p \in DOMAIN pageTable : buffers[pageTable[p]].Buffer.PageID = p

C20_Flush ==
  [][(bufBudget' # bufBudget /\ bpmCall'.op = "flush")
       => /\ pageTable' = pageTable
          /\ \A i \in DOMAIN buffers :
               /\ buffers'[i].Buffer.Page = buffers[i].Buffer.Page
               /\ buffers'[i].UsageCount = buffers[i].UsageCount
          /\ bpmCall'.err = "nil"
               => /\ \A p \in DOMAIN pageTable' :
                       /\ ~buffers'[pageTable'[p]].Buffer.IsDirty
                       /\ ReadPageData(heapFile', p).data
                            = buffers'[pageTable'[p]].Buffer.Page
                  /\ heapFile'.synced]_vars

\* ------------------------------------------------ lock manager properties

\* C28: when UnlockAll(t) returns, t holds no lock on any RID, no pending
\* request that can be granted is left ungranted, every RID t held is held
\* only by other transactions or can be locked Exclusive at once, and the
\* wait-for graph has no edge from t and no edge to t.
C28_UnlockAll ==
  [][\A t \in Txns :
       lockCall' = <<"unlockAll", t>>
         => /\ \A r \in RIDs :
                 /\ t \notin Holders(lockTable'[r])
                 /\ grantPendingLocks(lockTable'[r]).q = lockTable'[r]
                 /\ t \in Holders(lockTable[r])
                      => \/ Holders(lockTable'[r]) # {}
                         \/ canGrantLock(lockTable'[r], "X")
            /\ waitFor'[t] = {}
            /\ \A u \in Txns : t \notin waitFor'[u]]_vars

\* UnlockAll(1) has returned, transaction 2 that was blocked on RID 1 holds
\* it Exclusive and has not yet returned from its Lock call, and RID 2 is free
C28_Witness ==
  /\ lockCall = <<"unlockAll", 1>>
  /\ HoldsX(2, 1) /\ pc[2] = "woken" /\ waitRid[2] = 1
  /\ lockTable[2] = <<>>

\* C29: a LockShared or LockExclusive call for a transaction that is
\* Committed, Failed, Aborted or Terminated returns ErrTransactionNotActive
\* in the step of the call, and the lock table, the wait-for graph and the
\* goroutines blocked in Lock calls are as before.
C29_InactiveRejected ==
  [][\A t \in Txns :
       (/\ lockCall' = <<"lock", t>>
        /\ lockBudget' # lockBudget
        /\ txnState[t] \in {"Committed", "Failed", "Aborted", "Terminated"})
         => /\ res'[t] = "notActive"
            /\ pc' = pc
            /\ lockTable' = lockTable
            /\ waitFor' = waitFor]_vars

\* a Lock call for a Terminated transaction has returned ErrTransactionNotActive
\* while another transaction holds a lock
C29_Witness ==
  \E t \in Txns, r \in RIDs :
    /\ lockCall = <<"lock", t>> /\ res[t] = "notActive"
    /\ txnState[t] = "Terminated"
    /\ Holders(lockTable[r]) # {}

\* C30: a Begin whose AppendLog fails does not hand out an active
\* transaction, and a Commit or Abort call in which AppendLog, Flush or
\* Rollback returned an error does not return nil.
C30_ErrorsSurfaced ==
  [][/\ (nextTxnID' # nextTxnID /\ ioBudget' < ioBudget)
          => txnState'[nextTxnID] # "Active"
     /\ (tmOp.op \in {"commit", "abort"} /\ tmOp' = NoOp
           /\ (tmOp.failed \/ ioBudget' < ioBudget))
          => (last'[1] = tmOp.op /\ last'[2] = tmOp.txn /\ last'[3] # "ok")]_vars

\* ---------------------------------------- the slotted-page specification

\* One slotted page, initialized and empty
InitSlot ==
  /\ InitManagers
  /\ slotBudget = MaxSlotOps
  /\ NoTreeCalls
  /\ NoFnCalls
  /\ lockBudget = 0
  /\ callBudget = 0
  /\ updBudget = 0
  /\ ioBudget = 0

NextSlot ==
  \/ \E index \in 0..3, dataLen \in 0..MaxDataLen : SlottedInsert(index, dataLen)
  \/ \E index \in 0..3, newLen \in 0..MaxDataLen : SlottedResize(index, newLen)
  \/ \E index \in 0..3 : SlottedRemove(index)

SpecSlot == InitSlot /\ [][NextSlot]_vars

\* ------------------------------------------------- slotted page properties

\* The least Offset of a pointer with Len > 0, the body size when there is none
MinOffset(ptrs) ==
  LET offs == {ptrs[i].Offset : i \in {j \in 1..Len(ptrs) : ptrs[j].Len > 0}} IN
  IF offs = {} THEN BodySize ELSE CHOOSE o \in offs : \A o2 \in offs : o <= o2

RegionsDisjoint(ptrs) ==
  \A i, j \in 1..Len(ptrs) :
    (i < j /\ ptrs[i].Len > 0 /\ ptrs[j].Len > 0)
      => \/ ptrs[i].Offset + ptrs[i].Len <= ptrs[j].Offset
         \/ ptrs[j].Offset + ptrs[j].Len <= ptrs[i].Offset

Layout ==
  /\ slotted.NumSlots = Len(slotted.pointers)
  /\ PointersSize(slotted) <= slotted.FreeSpaceOffset
  /\ slotted.FreeSpaceOffset <= BodySize
  /\ slotted.FreeSpaceOffset = MinOffset(slotted.pointers)

ReadBack ==
  /\ Len(slotVals) = Len(slotted.pointers)
  /\ \A i \in 1..Len(slotVals) :
       Data(slotted, i - 1) = [k \in 1..slotVals[i].len |-> slotVals[i].val]

\* C27: after any sequence of Insert, Remove and Resize calls, each insert or
\* grow followed by the caller writing the record, the regions of the pointers
\* do not overlap, the pointer array ends at or before FreeSpaceOffset, which
\* is at most the body size and equals the least offset of a non-empty
\* record, every slot reads back what was written to it last, and a call that
\* returned false changed nothing.
C27_SlottedInvariants ==
  [][slotBudget' # slotBudget
       => /\ RegionsDisjoint(slotted'.pointers)
          /\ Layout'
          /\ ReadBack'
          /\ ~slotCall'.ok => slotted' = slotted]_vars

\* ---------------------------------------------- the B+ tree specification

\* One B+ tree, created and empty
InitTree ==
  /\ InitManagers
  /\ NoFnCalls
  /\ slotBudget = 0
  /\ InitBTree(TreePageSize)
  /\ btBudget = MaxTreeOps
  /\ btUpdBudget = MaxTreeUpd
  /\ btDelBudget = MaxTreeDel
  /\ lockBudget = 0
  /\ callBudget = 0
  /\ updBudget = 0
  /\ ioBudget = 0

NextTree ==
  \/ \E key \in TreeKeys : BTInsert(key)
  \/ \E key \in TreeKeys, newValue \in NewValues : BTUpdate(key, newValue)
  \/ \E key \in TreeKeys : BTDelete(key)

SpecTree == InitTree /\ [][NextTree]_vars

\* ------------------------------------------------------ B+ tree properties

\* The pairs the tree has to hold, by ascending key
RECURSIVE SortedPairs(_)
SortedPairs(kv) ==
  IF kv = {} THEN <<>>
  ELSE LET least == CHOOSE a \in kv : \A b \in kv : compareBytes(a[1], b[1]) <= 0
       IN <<least>> \o SortedPairs(kv \ {least})

\* What a caller reads from an iterator: Iter.Next until it finds no pair,
\* at most fuel times
RECURSIVE Collect(_, _, _)
Collect(pages, it, fuel) ==
  IF fuel = 0 THEN <<>>
  ELSE Only({ IF ~g.ok THEN <<>>
              ELSE << <<g.Key, g.Value>> >> \o Collect(pages, Advance(pages, it), fuel - 1)
              : g \in {IterGet(pages, it)} })

\* The first pair of Search(key), <<>> when the iterator is exhausted
FirstOf(pages, key) == Collect(pages, Search(pages, NewSearchModeKey(key)), 1)

\* The nodes on the way from the root to the first leaf
RECURSIVE Depth(_, _)
Depth(pages, pid) ==
  IF pages[pid + 1].type = "LEAF" THEN 1
  ELSE 1 + Depth(pages, ChildAt(pages[pid + 1], 0))

Leaves(pages) == {p \in 0..(Len(pages) - 1) : pages[p + 1].type = "LEAF"}
Internals(pages) == {p \in 0..(Len(pages) - 1) : pages[p + 1].type = "BRANCH"}

\* What Search(key) has to find first: the pair of the least key >= key
LeastAtOrAfter(kv, key) ==
  LET atOrAfter == {a \in kv : compareBytes(a[1], key) >= 0} IN
  IF atOrAfter = {} THEN <<>> ELSE << SortedPairs(atOrAfter)[1] >>

\* the keys asked for: those inserted, and one beyond them all
Probes == TreeKeys \cup {<<MaxKeys + 1>>}

\* C21: whatever pairs were inserted, in whatever order and across whatever
\* splits of leaves, internal nodes and the root, Search(k) of an inserted key
\* k yields an iterator whose first pair is k and its value, and Search(k) of
\* any other key yields the pair of the least key >= k, or an exhausted
\* iterator when there is none.
C21_Search ==
  btDelBudget = MaxTreeDel
    => \A key \in Probes : FirstOf(btPages, key) = LeastAtOrAfter(btKV, key)

C21_Witness ==
  /\ btDelBudget = MaxTreeDel
  /\ Depth(btPages, btPages[1].RootPageID) = 3
  /\ Cardinality(Internals(btPages)) >= 3
  /\ \E key \in TreeKeys : LeastAtOrAfter(btKV, key) # <<>> /\ LeastAtOrAfter(btKV, key)[1][1] # key

\* The iterator after n calls of Iter.Next
RECURSIVE IterAfter(_, _, _)
IterAfter(pages, it, n) ==
  IF n = 0 THEN it ELSE IterAfter(pages, Advance(pages, it), n - 1)

\* C22: after any sequence of inserts, those that split leaves, internal nodes
\* and the root included, iterating from Search(Start) until the iterator
\* finds no pair visits every key of the tree exactly once, in strictly
\* ascending order, and the iterator then stands on the last leaf.
C22_Iteration ==
  btDelBudget = MaxTreeDel
    => /\ Collect(btPages, Search(btPages, NewSearchModeStart), Cardinality(btKV) + 1)
            = SortedPairs(btKV)
       /\ ~Valid(btPages[IterAfter(btPages, Search(btPages, NewSearchModeStart),
                                  Cardinality(btKV)).buffer + 1].NextPageID)

C22_Witness ==
  /\ btDelBudget = MaxTreeDel
  /\ Depth(btPages, btPages[1].RootPageID) = 3
  /\ Cardinality(Leaves(btPages)) >= 4
  /\ Len(Collect(btPages, Search(btPages, NewSearchModeStart), MaxKeys)) = 5

\* C23: Insert of a key the tree holds returns ErrDuplicateKey and changes no
\* page: the value stored for the key, every other pair and the structure
\* stay, no page is allocated and nothing is split.
C23_DuplicateKey ==
  [][(btCall'.op = "insert" /\ btBudget' # btBudget
      /\ \E kv \in btKV : kv[1] = btCall'.key)
       => /\ btCall'.err = "ErrDuplicateKey"
          /\ btPages' = btPages
          /\ btKV' = btKV]_vars

C23_Witness ==
  /\ btCall.op = "insert"
  /\ btCall.err = "ErrDuplicateKey"
  /\ Depth(btPages, btPages[1].RootPageID) >= 2
  /\ \E kv \in btKV : kv[1] = btCall.key /\ kv[2] # btCall.value
  /\ FirstOf(btPages, btCall.key) # << <<btCall.key, btCall.value>> >>

\* ------------------------------------- the B+ tree of wide pages: updates

\* One B+ tree whose leaves hold three pairs, created and empty
InitWide ==
  /\ InitManagers
  /\ NoFnCalls
  /\ slotBudget = 0
  /\ InitBTree(WidePageSize)
  /\ btBudget = MaxWideOps
  /\ btUpdBudget = MaxWideUpd
  /\ btDelBudget = 0
  /\ lockBudget = 0
  /\ callBudget = 0
  /\ updBudget = 0
  /\ ioBudget = 0

NextWide ==
  \/ \E key \in TreeKeys : BTInsert(key)
  \/ \E key \in TreeKeys, newValue \in NewValues \cup {TooLong} : BTUpdate(key, newValue)

SpecWide == InitWide /\ [][NextWide]_vars

\* The page of the leaf that the descent for key ends in
RECURSIVE LeafPageOf(_, _, _)
LeafPageOf(pages, pid, key) ==
  IF pages[pid + 1].type = "LEAF" THEN pid
  ELSE LeafPageOf(pages, SearchChild(pages[pid + 1], key), key)

\* The keys that a search finds in the tree
KeysFound(pages) ==
  {k \in TreeKeys : FirstOf(pages, k) # <<>> /\ FirstOf(pages, k)[1][1] = k}

\* The leaf of key has room for the pair <<key, newValue>> in place of <<key, oldValue>>
Accommodates(pages, key, oldValue, newValue) ==
  LET leaf == pages[LeafPageOf(pages, pages[1].RootPageID, key) + 1] IN
  /\ Len(ToBytes([Key |-> key, Value |-> newValue])) <= MaxPairSize(leaf)
  /\ Len(newValue) - Len(oldValue) <= FreeSpace(leaf.body)

\* C24: Update(key, newValue) of a key the tree holds, in a leaf that has room
\* for the new pair, returns nil; a search for the key then yields the new
\* value, the tree has the same keys and pages as before, and every other pair
\* keeps its value. For a key the tree does not hold, or a leaf without room
\* for the new pair, Update returns ErrKeyNotFound and no page changes.
C24_Update ==
  [][(btCall'.op = "update" /\ btBudget' # btBudget)
       => LET key == btCall'.key
              newValue == btCall'.value
              held == {kv \in btKV : kv[1] = key}
          IN IF held # {} /\ \A kv \in held : Accommodates(btPages, key, kv[2], newValue)
             THEN /\ btCall'.err = "nil"
                  /\ FirstOf(btPages', key) = << <<key, newValue>> >>
                  /\ KeysFound(btPages') = KeysFound(btPages)
                  /\ Len(btPages') = Len(btPages)
                  /\ \A kv \in btKV : kv[1] # key => FirstOf(btPages', kv[1]) = <<kv>>
             ELSE /\ btCall'.err = "ErrKeyNotFound"
                  /\ btPages' = btPages]_vars

\* An Update has replaced a value by a longer one, in the second pair of a leaf
\* that is not the first leaf of the tree
C24_Witness ==
  /\ btCall.op = "update"
  /\ btCall.err = "nil"
  /\ Len(btCall.value) > Len(ValueOf(btCall.key))
  /\ Depth(btPages, btPages[1].RootPageID) = 2
  /\ LET pid == LeafPageOf(btPages, btPages[1].RootPageID, btCall.key) IN
       /\ Valid(btPages[pid + 1].PrevPageID)
       /\ SearchSlotID(btPages[pid + 1], btCall.key).idx = 1

\* An Update of a key the tree holds has failed for want of free space in the leaf
UpdateNoRoom ==
  /\ btCall.op = "update"
  /\ btCall.err = "ErrKeyNotFound"
  /\ \E kv \in btKV : kv[1] = btCall.key
  /\ Len(ToBytes([Key |-> btCall.key, Value |-> btCall.value])) <= MaxPairSize(ZeroLeaf)

\* C25: Delete(key) of a key the tree does not hold returns ErrKeyNotFound and
\* no page changes. Delete of a held key returns nil, takes one pair out of the
\* leaf of the key and changes no other page; afterwards the iteration from
\* Search(Start) yields all remaining pairs by ascending key, and Search(k)
\* stands on the pair of the least remaining key >= k, for every k.
C25_Delete ==
  [][(btCall'.op = "delete" /\ btBudget' # btBudget)
       => LET key == btCall'.key
              pid == LeafPageOf(btPages, btPages[1].RootPageID, key)
          IN IF \A kv \in btKV : kv[1] # key
             THEN /\ btCall'.err = "ErrKeyNotFound"
                  /\ btPages' = btPages
             ELSE /\ btCall'.err = "nil"
                  /\ Len(btPages') = Len(btPages)
                  /\ \A p \in 1..Len(btPages) : p # pid + 1 => btPages'[p] = btPages[p]
                  /\ NumPairs(btPages'[pid + 1]) = NumPairs(btPages[pid + 1]) - 1
                  /\ Collect(btPages', Search(btPages', NewSearchModeStart), MaxKeys)
                       = SortedPairs(btKV')
                  /\ \A k \in Probes : FirstOf(btPages', k) = LeastAtOrAfter(btKV', k)]_vars

\* What Delete keeps of it: the error, the pages, and the searches for the
\* keys themselves (a held key is found with its value, the deleted key is not)
DeleteLocal ==
  [][(btCall'.op = "delete" /\ btBudget' # btBudget)
       => LET key == btCall'.key
              pid == LeafPageOf(btPages, btPages[1].RootPageID, key)
          IN IF \A kv \in btKV : kv[1] # key
             THEN /\ btCall'.err = "ErrKeyNotFound"
                  /\ btPages' = btPages
             ELSE /\ btCall'.err = "nil"
                  /\ Len(btPages') = Len(btPages)
                  /\ \A p \in 1..Len(btPages) : p # pid + 1 => btPages'[p] = btPages[p]
                  /\ NumPairs(btPages'[pid + 1]) = NumPairs(btPages[pid + 1]) - 1
                  /\ \A kv \in btKV' : FirstOf(btPages', kv[1]) = <<kv>>
                  /\ \/ FirstOf(btPages', key) = <<>>
                     \/ FirstOf(btPages', key)[1][1] # key]_vars

\* No leaf is empty but the only one of the tree
NoEmptyLeaf ==
  \A p \in Leaves(btPages) : NumPairs(btPages[p + 1]) = 0 => Cardinality(Leaves(btPages)) = 1

\* The iteration and the searches are right as long as no leaf has been emptied
DeleteAbove ==
  NoEmptyLeaf
    => /\ Collect(btPages, Search(btPages, NewSearchModeStart), MaxKeys) = SortedPairs(btKV)
       /\ \A k \in Probes : FirstOf(btPages, k) = LeastAtOrAfter(btKV, k)

\* ------------------------------------ the B+ tree with keys of two lengths

\* One B+ tree, created and empty; the calls are inserts and updates of short
\* and long keys, and no deletes
InitLong ==
  /\ InitManagers
  /\ NoFnCalls
  /\ slotBudget = 0
  /\ InitBTree(TreePageSize)
  /\ btBudget = MaxLongOps
  /\ btUpdBudget = MaxTreeUpd
  /\ btDelBudget = MaxTreeDel
  /\ lockBudget = 0
  /\ callBudget = 0
  /\ updBudget = 0
  /\ ioBudget = 0

NextLong ==
  \/ \E key \in TreeKeys \cup LongKeys : BTInsert(key)
  \/ \E key \in TreeKeys \cup LongKeys, newValue \in NewValues : BTUpdate(key, newValue)

SpecLong == InitLong /\ [][NextLong]_vars

\* The inserts do not panic
NoPanic == btCall.panic = "none"

\* Every pair of the tree is found by the search for its key
AllFound == \A kv \in btKV : FirstOf(btPages, kv[1]) = <<kv>>

\* C26: an Insert of a pair of at most MaxPairSize bytes does not panic; for a
\* key the tree does not hold it returns nil, and every pair inserted so far is
\* then found by the search for its key; it adds at most one page per level and
\* one for a new root; it leaves no leaf empty, and the tree of a depth d has
\* at least 2^(d-1) leaves afterwards.
C26_SplitProgress ==
  [][(btCall'.op = "insert" /\ btBudget' # btBudget)
       => /\ btCall'.panic = "none"
          /\ (\A kv \in btKV : kv[1] # btCall'.key)
               => /\ btCall'.err = "nil"
                  /\ \A kv \in btKV \cup {<<btCall'.key, btCall'.value>>} :
                       FirstOf(btPages', kv[1]) = <<kv>>
          /\ Len(btPages') - Len(btPages) <= Depth(btPages, btPages[1].RootPageID) + 1
          /\ NoEmptyLeaf => NoEmptyLeaf'
          /\ 2 ^ (Depth(btPages', btPages'[1].RootPageID) - 1)
               <= Cardinality(Leaves(btPages'))]_vars

\* ------------------------------------------------- properties of Begin

\* The step is a Begin call
IsBegin == nextTxnID' # nextTxnID

\* The ids, the state and the active map of a Begin step: the id is the next
\* one after those assigned before, 1 for the first
BeginAssigns ==
  /\ nextTxnID' = nextTxnID + 1
  /\ {t \in Txns : txnState[t] # "None"} = 1..(nextTxnID - 1)
  /\ txnState[nextTxnID] = "None"
  /\ txnState'[nextTxnID] = "Active"
  /\ nextTxnID \in activeTxns'
  /\ \A t \in Txns \ {nextTxnID} : txnState'[t] = txnState[t]

\* The log of a Begin step: one more record, the Begin record of the id
BeginLogged ==
  /\ Len(log') = Len(log) + 1
  /\ SubSeq(log', 1, Len(log)) = log
  /\ log'[Len(log')].type = "Begin"
  /\ log'[Len(log')].txn = nextTxnID

\* C31: every Begin assigns the id after the ones assigned before, starting at
\* 1; the transaction it returns is Active, is in the active map, and its
\* Begin record has been appended to the log.
C31_Begin == [][IsBegin => (BeginAssigns /\ BeginLogged)]_vars

\* The same with the Begin record required only of a Begin whose AppendLog
\* did not fail
BeginWhenWritten ==
  [][IsBegin => (BeginAssigns /\ (ioBudget' = ioBudget => BeginLogged))]_vars

\* ------------------------------------------- memcmpable and tuple codecs

EscapeLength == 9

\* min
min(a, b) == IF a < b THEN a ELSE b

\* n zero bytes: make([]byte, n)
zeros(n) == [i \in 1..n |-> 0]

\* memcmpable.Encode: the bytes appended to dst
RECURSIVE Encode(_, _)
Encode(src, dst) ==
  IF ~(Len(src) > 0) THEN dst
  ELSE
    Only({
      Only({
        IF Len(rest) = 0
        THEN dst \o SubSeq(src, 1, copyLen) \o zeros(EscapeLength - 1 - copyLen)
                 \o <<copyLen>>
        ELSE Encode(rest, dst \o SubSeq(src, 1, copyLen) \o <<EscapeLength>>)
        : rest \in {SubSeq(src, copyLen + 1, Len(src))} })
      : copyLen \in {min(EscapeLength - 1, Len(src))} })

\* memcmpable.Decode: what is left of src, and dst; the index expression
\* (*src)[EscapeLength-1] panics on a src shorter than EscapeLength
RECURSIVE Decode(_, _)
Decode(src, dst) ==
  IF ~(Len(src) > 0) THEN [src |-> src, dst |-> dst, panic |-> FALSE]
  ELSE IF Len(src) < EscapeLength THEN [src |-> src, dst |-> dst, panic |-> TRUE]
  ELSE
    Only({
      IF extra < EscapeLength
      THEN [src |-> SubSeq(src, EscapeLength + 1, Len(src)),
            dst |-> dst \o SubSeq(src, 1, min(EscapeLength - 1, extra)),
            panic |-> FALSE]
      ELSE Decode(SubSeq(src, EscapeLength + 1, Len(src)),
                  dst \o SubSeq(src, 1, min(EscapeLength - 1, extra)))
      : extra \in {src[EscapeLength]} })

\* tuple.Encode: the bytes appended to bytes
RECURSIVE TupleEncode(_, _)
TupleEncode(elems, bytes) ==
  IF elems = <<>> THEN bytes
  ELSE TupleEncode(Tail(elems), Encode(Head(elems), bytes))

\* tuple.Decode: the elements appended to elems
RECURSIVE TupleDecode(_, _)
TupleDecode(rest, elems) ==
  IF ~(Len(rest) > 0) THEN [elems |-> elems, panic |-> FALSE]
  ELSE Only({ IF d.panic THEN [elems |-> elems, panic |-> TRUE]
              ELSE TupleDecode(d.src, Append(elems, d.dst))
              : d \in {Decode(rest, <<>>)} })

\* ---- the inputs
\* the byte values: zero, a small one, and the one equal to EscapeLength
CodecBytes == {0, 1, EscapeLength}
\* the lengths: the short ones and those next to a multiple of EscapeLength - 1
CodecLens ==
  {n \in 0..MaxCodecLen : n <= 2 \/ n % (EscapeLength - 1) \in {0, 1, EscapeLength - 2}}
\* the byte strings: one byte repeated, and any byte last
ByteStrings ==
  {[i \in 1..n |-> IF i = n THEN x ELSE f] : n \in CodecLens, f \in CodecBytes, x \in CodecBytes}
\* the elements of the tuples
TupleElems == {b \in ByteStrings : Len(b) <= 1 \/ (Len(b) = EscapeLength - 1 /\ b[1] = 1)}
Tuples == UNION {[1..n -> TupleElems] : n \in 0..MaxTupleLen}

\* ---- the calls: Encode of both inputs, then Decode of both results
CodecEncode ==
  /\ codec.op = "input"
  /\ codec.kind = "bytes"
  /\ codec' = [codec EXCEPT !.op = "encoded", !.ea = Encode(codec.a, <<>>),
                            !.eb = Encode(codec.b, <<>>)]
  /\ UNCHANGED <<lockVars, scenF, tmVars, logVars, pageVars, bufVars, slotVars, btVars, dfs, branch, heapVars>>

CodecDecode ==
  /\ codec.op = "encoded"
  /\ codec.kind = "bytes"
  /\ \E da \in {Decode(codec.ea, <<>>)}, db \in {Decode(codec.eb, <<>>)} :
       codec' = [codec EXCEPT !.op = "decoded", !.da = da.dst, !.db = db.dst,
                              !.panic = da.panic \/ db.panic]
  /\ UNCHANGED <<lockVars, scenF, tmVars, logVars, pageVars, bufVars, slotVars, btVars, dfs, branch, heapVars>>

CodecTupleEncode ==
  /\ codec.op = "input"
  /\ codec.kind = "tuple"
  /\ codec' = [codec EXCEPT !.op = "encoded", !.ea = TupleEncode(codec.a, <<>>),
                            !.eb = TupleEncode(codec.b, <<>>)]
  /\ UNCHANGED <<lockVars, scenF, tmVars, logVars, pageVars, bufVars, slotVars, btVars, dfs, branch, heapVars>>

CodecTupleDecode ==
  /\ codec.op = "encoded"
  /\ codec.kind = "tuple"
  /\ \E da \in {TupleDecode(codec.ea, <<>>)}, db \in {TupleDecode(codec.eb, <<>>)} :
       codec' = [codec EXCEPT !.op = "decoded", !.da = da.elems, !.db = db.elems,
                              !.panic = da.panic \/ db.panic]
  /\ UNCHANGED <<lockVars, scenF, tmVars, logVars, pageVars, bufVars, slotVars, btVars, dfs, branch, heapVars>>

\* Two byte strings, or two tuples, and no call made yet
InitCodec ==
  /\ InitManagers
  /\ slotBudget = 0
  /\ NoTreeCalls
  /\ dfs = NoDfs
  /\ branch = NoBranch
  /\ lockBudget = 0
  /\ callBudget = 0
  /\ updBudget = 0
  /\ ioBudget = 0
  /\ \/ \E a \in ByteStrings, b \in ByteStrings :
          codec = [op |-> "input", kind |-> "bytes", a |-> a, b |-> b, ea |-> <<>>,
                   eb |-> <<>>, da |-> <<>>, db |-> <<>>, panic |-> FALSE]
     \/ \E a \in Tuples, b \in Tuples :
          codec = [op |-> "input", kind |-> "tuple", a |-> a, b |-> b, ea |-> <<>>,
                   eb |-> <<>>, da |-> <<>>, db |-> <<>>, panic |-> FALSE]

NextCodec ==
  \/ CodecEncode
  \/ CodecDecode
  \/ CodecTupleEncode
  \/ CodecTupleDecode

SpecCodec == InitCodec /\ [][NextCodec]_vars

\* ---- properties of the codecs
\* The order of two tuples: element by element, a proper prefix first
RECURSIVE TupleCompare(_, _)
TupleCompare(t1, t2) ==
  IF t1 = <<>> /\ t2 = <<>> THEN 0
  ELSE IF t1 = <<>> THEN -1
  ELSE IF t2 = <<>> THEN 1
  ELSE IF compareBytes(Head(t1), Head(t2)) # 0 THEN compareBytes(Head(t1), Head(t2))
  ELSE TupleCompare(Tail(t1), Tail(t2))

\* The order of the two inputs
InputOrder ==
  IF codec.kind = "bytes" THEN compareBytes(codec.a, codec.b)
  ELSE TupleCompare(codec.a, codec.b)

\* What the codecs owe to the inputs at hand
CodecRight ==
  /\ codec.op \in {"encoded", "decoded"} => compareBytes(codec.ea, codec.eb) = InputOrder
  /\ codec.op = "decoded" => (~codec.panic /\ codec.da = codec.a /\ codec.db = codec.b)

\* C32: the encodings of two byte strings compare as the byte strings do, and
\* those of two tuples as the tuples do, element by element; decoding an
\* encoding gives back the byte string, or the tuple, that was encoded; empty
\* byte strings and lengths that are multiples of 8 included.
C32_Codecs == codec.op # "none" => CodecRight

\* The same for byte strings alone, and for the tuples without an empty element
CodecNonEmpty ==
  (\/ codec.op = "none"
   \/ /\ codec.kind = "tuple"
      /\ \E t \in {codec.a, codec.b} : \E i \in 1..Len(t) : t[i] = <<>>)
  \/ CodecRight

\* ------------------------------------- the deadlock check on its own

DfsNodes == 1..MaxDfsNodes

\* ---- hasDeadlock(start) on the wait-for graph at hand
DfsCheck ==
  /\ dfs.op = "input"
  /\ dfs' = [dfs EXCEPT !.op = "checked", !.result = hasDeadlock(dfs.wf, dfs.start)]
  /\ UNCHANGED <<lockVars, scenF, tmVars, logVars, pageVars, bufVars, slotVars, btVars, codec, branch, heapVars>>

\* Any wait-for graph over the transactions, and any of them to start from
InitDfs ==
  /\ InitManagers
  /\ slotBudget = 0
  /\ NoTreeCalls
  /\ codec = NoCodec
  /\ branch = NoBranch
  /\ lockBudget = 0
  /\ callBudget = 0
  /\ updBudget = 0
  /\ ioBudget = 0
  /\ \E wf \in [DfsNodes -> SUBSET DfsNodes], start \in DfsNodes :
       dfs = [op |-> "input", wf |-> wf, start |-> start, result |-> FALSE]

NextDfs == DfsCheck

SpecDfs == InitDfs /\ [][NextDfs]_vars

\* The transactions reached from those of S by one wait-for edge or more
RECURSIVE ReachFrom(_, _, _)
ReachFrom(wf, S, seen) ==
  LET next == UNION {wf[n] : n \in S} IN
  IF next \subseteq seen THEN seen ELSE ReachFrom(wf, next \ seen, seen \cup next)

WaitsOn(wf, n) == ReachFrom(wf, {n}, {})

\* A cycle of wait-for edges can be reached from start
CycleFrom(wf, start) ==
  \E n \in {start} \cup WaitsOn(wf, start) : n \in WaitsOn(wf, n)

\* C33: the deadlock check that starts from a transaction returns true exactly
\* when wait-for edges lead from it to a transaction that is on a cycle of
\* wait-for edges; a transaction that is only reached again over a second
\* path is not a deadlock.
C33_DeadlockCheck == dfs.op = "checked" => (dfs.result <=> CycleFrom(dfs.wf, dfs.start))

\* The check has returned false on a graph with the two paths 1 -> 2 -> 3 and
\* 1 -> 4 -> 3
C33_Witness ==
  /\ dfs.op = "checked"
  /\ dfs.start = 1
  /\ dfs.wf = [n \in DfsNodes |-> IF n = 1 THEN {2, 4} ELSE IF n \in {2, 4} THEN {3} ELSE {}]
  /\ ~dfs.result

\* ------------------------------------------------- the chain of leaves

\* The keys of a leaf
KeysOf(l) == {PairAt(l, i).Key : i \in 0..(NumPairs(l) - 1)}

\* The leaf the descent by first children ends in
RECURSIVE FirstLeaf(_, _)
FirstLeaf(pages, pid) ==
  IF pages[pid + 1].type = "LEAF" THEN pid
  ELSE FirstLeaf(pages, ChildAt(pages[pid + 1], 0))

\* The leaves met from p by NextPageID, at most fuel of them
RECURSIVE ChainFrom(_, _, _)
ChainFrom(pages, p, fuel) ==
  IF fuel = 0 \/ ~Valid(p) THEN {}
  ELSE {p} \cup ChainFrom(pages, pages[p + 1].NextPageID, fuel - 1)

\* One chain holds every leaf: a leaf's next is a leaf whose prev is that leaf
\* and whose keys are all larger, the first leaf of the tree has no prev, and
\* every leaf is met from it
LeafChain(pages) ==
  /\ \A p \in Leaves(pages) :
       LET next == pages[p + 1].NextPageID IN
       Valid(next)
         => /\ next \in Leaves(pages)
            /\ pages[next + 1].PrevPageID = p
            /\ \A a \in KeysOf(pages[p + 1]), b \in KeysOf(pages[next + 1]) :
                 compareBytes(a, b) < 0
  /\ ~Valid(pages[FirstLeaf(pages, pages[1].RootPageID) + 1].PrevPageID)
  /\ ChainFrom(pages, FirstLeaf(pages, pages[1].RootPageID), Len(pages)) = Leaves(pages)

\* The step is an Insert that split the leaf of its key
IsLeafSplit ==
  /\ btCall'.op = "insert"
  /\ btBudget' # btBudget
  /\ Len(btPages') > Len(btPages)

\* The new leaf of a split stands before the old one in the chain
Spliced ==
  LET old == LeafPageOf(btPages, btPages[1].RootPageID, btCall'.key)
      new == Len(btPages)
      prev == btPages[old + 1].PrevPageID
  IN /\ btPages'[new + 1].type = "LEAF"
     /\ btPages'[new + 1].NextPageID = old
     /\ btPages'[new + 1].PrevPageID = prev
     /\ btPages'[old + 1].PrevPageID = new
     /\ Valid(prev) => btPages'[prev + 1].NextPageID = new

\* C34: an Insert that splits a leaf puts the new leaf before the old one in
\* the chain of leaves (new.next = old, new.prev = the former prev of old,
\* old.prev = new, and the former previous leaf's next = new); after any
\* inserts the leaves are one chain in which the prev of a leaf's next is that
\* leaf, the first leaf has no prev, and the keys of a leaf are smaller than
\* those of its next.
C34_LeafChain ==
  [][(btCall'.op = "insert" /\ btBudget' # btBudget)
       => /\ IsLeafSplit => Spliced
          /\ LeafChain(btPages')]_vars

\* The last Insert put its key into a new leaf that has a leaf before it and a
\* leaf after it
C34_Witness ==
  LET new == Len(btPages) - 1 IN
  /\ btCall.op = "insert"
  /\ btCall.err = "nil"
  /\ btPages[new + 1].type = "LEAF"
  /\ Valid(btPages[new + 1].PrevPageID)
  /\ Valid(btPages[new + 1].NextPageID)
  /\ btCall.key \in KeysOf(btPages[new + 1])
  /\ LeafChain(btPages)

\* ------------------------------------------------- the split of the root

\* The pairs of the leaves below a node, met through every child
RECURSIVE PairsBelow(_, _)
PairsBelow(pages, pid) ==
  Only({ IF node.type = "LEAF"
         THEN {<<PairAt(node, i).Key, PairAt(node, i).Value>> : i \in 0..(NumPairs(node) - 1)}
         ELSE UNION {PairsBelow(pages, ChildAt(node, i)) : i \in 0..NumPairs(node)}
         : node \in {pages[pid + 1]} })

\* The pairs of the tree of the meta page
PairsOfTree(pages) == PairsBelow(pages, pages[MetaPageID + 1].RootPageID)

\* The step is an Insert that changed the root of the tree
IsRootSplit ==
  /\ btCall'.op = "insert"
  /\ btBudget' # btBudget
  /\ btPages'[MetaPageID + 1].RootPageID # btPages[MetaPageID + 1].RootPageID

\* The new root of a root split: a new page, holding the one promoted key
\* between the page the split made and the old root; the meta page is dirty
NewRoot ==
  LET oldRoot == btPages[MetaPageID + 1].RootPageID
      newRoot == btPages'[MetaPageID + 1].RootPageID
      split == insertInternal(btPages, oldRoot, btCall'.key, btCall'.value).split
      root == btPages'[newRoot + 1]
  IN /\ newRoot = Len(btPages') - 1
     /\ newRoot >= Len(btPages)
     /\ root.type = "BRANCH"
     /\ NumPairs(root) = 1
     /\ PairAt(root, 0).Key = split.Key
     /\ ChildAt(root, 0) = split.ChildPageId
     /\ split.ChildPageId >= Len(btPages)
     /\ root.RightChild = oldRoot
     /\ MetaPageID \in BTreeInsert(btPages, btCall'.key, btCall'.value).dirty

\* C35: an Insert that splits the root makes a new page the root, with the
\* promoted key as its one key, the page the split made as its left child and
\* the old root as its right child, and sets the root of the meta page to it,
\* the buffer of the meta page being dirty; the tree of the meta page then
\* holds the pairs it held before and the inserted pair, and the meta page is
\* the same page.
C35_RootSplit ==
  [][IsRootSplit
       => /\ NewRoot
          /\ btPages'[MetaPageID + 1].type = "META"
          /\ PairsOfTree(btPages')
               = PairsOfTree(btPages) \cup {<<btCall'.key, btCall'.value>>}]_vars

\* The last Insert has put a root above two internal nodes
C35_Witness ==
  LET root == btPages[btPages[MetaPageID + 1].RootPageID + 1] IN
  /\ btCall.op = "insert"
  /\ btCall.err = "nil"
  /\ btPages[MetaPageID + 1].RootPageID = Len(btPages) - 1
  /\ root.type = "BRANCH"
  /\ NumPairs(root) = 1
  /\ btPages[ChildAt(root, 0) + 1].type = "BRANCH"
  /\ btPages[root.RightChild + 1].type = "BRANCH"
  /\ <<btCall.key, btCall.value>> \in PairsOfTree(btPages)

\* ------------------------------------- the internal node on its own

\* the keys put into the node, and the keys looked for
NodeKeys == {<<k>> : k \in 1..MaxNodeKeys} \cup {<<2, 0>>}
NodeProbes == NodeKeys \cup {<<0>>, <<MaxNodeKeys, 0>>}

\* ---- InternalNode.Insert of a key the node does not hold, with a new child,
\* ---- at the slot the key belongs to; the node has room for it
BranchInsert(key) ==
  /\ branch.op # "none"
  /\ key \notin branch.used
  /\ \E ins \in {NodeInsert(branch.n, SearchSlotID(branch.n, key).idx, key,
                            PageIDToBytes(branch.next))} :
       /\ ins.ok
       /\ branch' = [op |-> "insert", n |-> ins.n, dest |-> ZeroInternal, key |-> <<>>,
                     before |-> branch.n, newKey |-> key, newPageId |-> branch.next,
                     next |-> branch.next + 1, used |-> branch.used \cup {key}]
  /\ UNCHANGED <<lockVars, scenF, tmVars, logVars, pageVars, bufVars, slotVars, btVars,
                 codec, dfs, heapVars>>

\* ---- InternalNode.SplitInsert into a new node, as insertInternal calls it
\* ---- when Insert has returned false
BranchSplitInsert(key) ==
  /\ branch.op # "none"
  /\ key \notin branch.used
  /\ ~NodeInsert(branch.n, SearchSlotID(branch.n, key).idx, key,
                 PageIDToBytes(branch.next)).ok
  /\ \E sp \in {InternalSplitInsert(branch.n, ZeroInternal, key, branch.next)} :
       /\ sp.panic = "none"
       /\ branch' = [op |-> "split", n |-> sp.n, dest |-> sp.dest, key |-> sp.key,
                     before |-> branch.n, newKey |-> key, newPageId |-> branch.next,
                     next |-> branch.next + 1, used |-> branch.used \cup {key}]
  /\ UNCHANGED <<lockVars, scenF, tmVars, logVars, pageVars, bufVars, slotVars, btVars,
                 codec, dfs, heapVars>>

\* An internal node after Initialize(key, 1, 2)
InitBranch ==
  /\ InitManagers
  /\ slotBudget = 0
  /\ InitBTree(NodePageSize)
  /\ btBudget = 0
  /\ btUpdBudget = 0
  /\ btDelBudget = 0
  /\ codec = NoCodec
  /\ dfs = NoDfs
  /\ lockBudget = 0
  /\ callBudget = 0
  /\ updBudget = 0
  /\ ioBudget = 0
  /\ \E key \in NodeKeys :
       branch = [op |-> "init", n |-> InternalInitialize(ZeroInternal, key, 1, 2),
                 dest |-> ZeroInternal, key |-> <<>>, before |-> ZeroInternal,
                 newKey |-> key, newPageId |-> 1, next |-> 3, used |-> {key}]

NextBranch ==
  \/ \E key \in NodeKeys : BranchInsert(key)
  \/ \E key \in NodeKeys : BranchSplitInsert(key)

SpecBranch == InitBranch /\ [][NextBranch]_vars

\* The keys of a node with the children left of them
EntriesOf(n) ==
  {<<PairAt(n, i).Key, PageIDFromBytes(PairAt(n, i).Value)>> : i \in 0..(NumPairs(n) - 1)}

\* The child a key belongs to among keys with the children left of them: that
\* of the least key above it, the right child when there is none
RouteOf(entries, rightChild, key) ==
  LET above == {e \in entries : compareBytes(key, e[1]) < 0} IN
  IF above = {} THEN rightChild
  ELSE (CHOOSE e \in above : \A f \in above : compareBytes(e[1], f[1]) <= 0)[2]

\* SearchChildIdx is i + 1 for the key of slot i and the position the key
\* would be inserted at for any other key
IdxRight(n) ==
  \A key \in NodeProbes :
    LET at == {i \in 0..(NumPairs(n) - 1) : PairAt(n, i).Key = key}
        below == {i \in 0..(NumPairs(n) - 1) : compareBytes(PairAt(n, i).Key, key) < 0}
    IN /\ SearchChildIdx(n, key) = IF at # {} THEN MinOf(at) + 1 ELSE Cardinality(below)
       /\ (NumPairs(n) > 0 /\ compareBytes(key, PairAt(n, 0).Key) < 0)
            => SearchChild(n, key) = ChildAt(n, 0)
       /\ (NumPairs(n) > 0 /\ compareBytes(key, PairAt(n, NumPairs(n) - 1).Key) >= 0)
            => SearchChild(n, key) = n.RightChild

\* The node of a key after a split: the new node below the promoted key, the
\* old node from it on
SideOf(key) == IF compareBytes(key, branch.key) < 0 THEN branch.dest ELSE branch.n

\* C36: in an internal node SearchChildIdx(key) is i + 1 when key is the key
\* of slot i and the insertion position otherwise, so that a key below the
\* first key goes to the first child and a key at or above the last key to the
\* right child; after Insert, and after SplitInsert with its FillRightChild
\* when the node is chosen with the promoted key (the new node below it, the
\* old node from it on), every key reaches the child it reached before, or the
\* child just inserted when it lies between the key left of the inserted key
\* and the inserted key.
C36_Routing ==
  branch.op # "none"
    => /\ IdxRight(branch.n)
       /\ branch.op = "split" => IdxRight(branch.dest)
       /\ branch.op \in {"insert", "split"}
            => \A key \in NodeProbes :
                 SearchChild(IF branch.op = "split" THEN SideOf(key) ELSE branch.n, key)
                   = RouteOf(EntriesOf(branch.before)
                               \cup {<<branch.newKey, branch.newPageId>>},
                             branch.before.RightChild, key)

\* A split has put the inserted key into the new node, which keeps a key, and
\* a key is looked for in each of the two nodes
C36_Witness ==
  /\ branch.op = "split"
  /\ NumPairs(branch.dest) >= 1
  /\ NumPairs(branch.n) >= 1
  /\ branch.newKey \in {e[1] : e \in EntriesOf(branch.dest)}
  /\ \E a \in NodeProbes, b \in NodeProbes :
       /\ SideOf(a) = branch.dest /\ SearchChild(branch.dest, a) = branch.newPageId
       /\ SideOf(b) = branch.n /\ SearchChild(branch.n, b) # branch.n.RightChild

\* ------------------------------------- the B+ tree and its heap file

\* A page of the heap file that was never written: every byte is 0, which is
\* neither "LEAF    " nor "BRANCH  " as a node type and 0 as a root page id
ZeroPage == [type |-> "ZERO", RootPageID |-> 0]

\* DiskManager.ReadPageData as FetchPage takes it: a zero page past the end
ReadPageOf(file, p) == IF p < Len(file) THEN file[p + 1] ELSE ZeroPage

\* The heap file after WritePageData of every dirty buffer
WriteDirty(file, pages, dirty) ==
  LET end == IF dirty = {} THEN 0 ELSE 1 + CHOOSE p \in dirty : \A q \in dirty : q <= p
      len == IF end > Len(file) THEN end ELSE Len(file)
  IN [i \in 1..len |-> IF (i - 1) \in dirty THEN pages[i] ELSE ReadPageOf(file, i - 1)]

\* WriteDirty that leaves the buffers of the leaves out
WriteDirtyNoLeaf(file, pages, dirty) ==
  WriteDirty(file, pages, {p \in dirty : pages[p + 1].type # "LEAF"})

\* ---- BufferPoolManager.Flush: the buffers hold every page of the tree
BTFlush ==
  /\ btBudget > 0
  /\ btDisk' = WriteDirty(btDisk, btPages, btDirty)
  /\ btDirty' = {}
  /\ btCall' = [op |-> "flush", key |-> <<>>, value |-> <<>>, err |-> "nil",
                panic |-> "none"]
  /\ btBudget' = btBudget - 1
  /\ UNCHANGED <<btPageSize, btPages, btKV, btUpdBudget, btDelBudget>>
  /\ UNCHANGED <<lockVars, scenF, tmVars, logVars, pageVars, bufVars, slotVars, fnVars>>

\* What Search(Start) and the walk through every child meet in pages read from
\* the heap file: the pairs, or the panic of a page that is no node
RECURSIVE ReadBelow(_, _)
ReadBelow(pages, pid) ==
  Only({ IF node.type = "LEAF"
         THEN [panic |-> "none",
               pairs |-> {<<PairAt(node, i).Key, PairAt(node, i).Value>>
                            : i \in 0..(NumPairs(node) - 1)}]
         ELSE IF node.type = "BRANCH"
         THEN Only({ IF \E r \in below : r.panic # "none"
                     THEN [panic |-> "unknown node type", pairs |-> {}]
                     ELSE [panic |-> "none", pairs |-> UNION {r.pairs : r \in below}]
                     : below \in {{ReadBelow(pages, ChildAt(node, i))
                                     : i \in 0..NumPairs(node)}} })
         ELSE [panic |-> "unknown node type", pairs |-> {}]
         : node \in {pages[pid + 1]} })

ReadTree(pages) == ReadBelow(pages, pages[MetaPageID + 1].RootPageID)

\* ---- The heap file is opened again by a new buffer pool manager and
\* ---- NewBTree(MetaPageID) is read: every page comes from the file
BTReopen ==
  /\ btBudget > 0
  /\ \E pages \in {[i \in 1..Len(btPages) |-> ReadPageOf(btDisk, i - 1)]} :
       /\ btPages' = pages
       /\ btCall' = [op |-> "reopen", key |-> <<>>, value |-> <<>>, err |-> "nil",
                     panic |-> ReadTree(pages).panic]
  /\ btDirty' = {}
  /\ btBudget' = 0
  /\ UNCHANGED <<btPageSize, btKV, btUpdBudget, btDelBudget, btDisk>>
  /\ UNCHANGED <<lockVars, scenF, tmVars, logVars, pageVars, bufVars, slotVars, fnVars>>

\* One B+ tree, created in an empty heap file
InitHeap ==
  /\ InitManagers
  /\ NoFnCalls
  /\ slotBudget = 0
  /\ InitBTree(TreePageSize)
  /\ btBudget = MaxHeapOps
  /\ btUpdBudget = MaxTreeUpd
  /\ btDelBudget = 0
  /\ lockBudget = 0
  /\ callBudget = 0
  /\ updBudget = 0
  /\ ioBudget = 0

NextHeap ==
  \/ \E key \in TreeKeys : BTInsert(key)
  \/ \E key \in TreeKeys, newValue \in NewValues : BTUpdate(key, newValue)
  \/ BTFlush
  \/ BTReopen

SpecHeap == InitHeap /\ [][NextHeap]_vars

\* The pages an Insert or Update step made or changed
Touched ==
  {p \in 0..(Len(btPages') - 1) : p >= Len(btPages) \/ btPages'[p + 1] # btPages[p + 1]}

\* C37: the buffer of every page CreateBTree, Insert or Update makes or changes
\* is dirty when the call returns, and a tree that is opened again from the
\* heap file right after a Flush holds the pairs the tree held.
C37_Durable ==
  /\ (btCall.op = "none" => {MetaPageID, btPages[MetaPageID + 1].RootPageID} \subseteq btDirty)
  /\ [][/\ (btCall'.op \in {"insert", "update"} /\ btBudget' # btBudget)
             => Touched \subseteq btDirty'
        /\ (btCall'.op = "reopen" /\ btCall.op = "flush")
             => /\ btCall'.panic = "none"
                /\ ReadTree(btPages').pairs = btKV]_vars

\* The buffers that Insert and Update mark are dirty, and what Flush writes of
\* them is read again
MarkedDurable ==
  [][/\ (btCall'.op = "insert" /\ btBudget' # btBudget)
          => BTreeInsert(btPages, btCall'.key, btCall'.value).dirty \subseteq btDirty'
     /\ (btCall'.op = "update" /\ btBudget' # btBudget)
          => BTreeUpdate(btPages, btCall'.key, btCall'.value).dirty \subseteq btDirty'
     /\ btCall'.op = "flush"
          => /\ btDirty' = {}
             /\ \A p \in btDirty : ReadPageOf(btDisk', p) = btPages[p + 1]
     /\ btCall'.op = "reopen"
          => \A p \in 0..(Len(btPages) - 1) : btPages'[p + 1] = ReadPageOf(btDisk, p)]_vars

\* ------------------------------------- the lock manager, orderly clients

\* A lock manager whose clients release only what they hold, one lock at a time
InitClient ==
  /\ InitLocks
  /\ InitLog
  /\ InitPool(1)
  /\ wrBudget = 0
  /\ bufBudget = 0
  /\ InitSlotted
  /\ slotBudget = 0
  /\ NoTreeCalls
  /\ NoFnCalls
  /\ txnState = [t \in Txns |-> "Active"]
  /\ nextTxnID = Cardinality(Txns) + 1
  /\ activeTxns = Txns
  /\ tmOp = NoOp
  /\ last = <<"none", 0, "none">>
  /\ fate = [t \in Txns |-> "none"]
  /\ lockBudget = MaxClientCalls
  /\ callBudget = 0
  /\ updBudget = 0
  /\ ioBudget = 0

\* The granted and the pending requests of a transaction in a request list
GrantedOf(q, t) == {i \in GrantedIdx(q) : q[i].txn = t}
PendingOf(q, t) == {i \in PendingIdx(q) : q[i].txn = t}

\* A client releases a lock it holds, and only while none of its calls blocks
ClientUnlock(t, r) ==
  /\ pc[t] = "idle"
  /\ GrantedOf(lockTable[r], t) # {}
  /\ Unlock(t, r)

NextClient ==
  \/ \E t \in Txns, r \in RIDs : LockExclusive(t, r)
  \/ \E t \in Txns, r \in RIDs : LockShared(t, r)
  \/ \E t \in Txns : Wake(t)
  \/ \E t \in Txns, r \in RIDs : ClientUnlock(t, r)

SpecClient == InitClient /\ [][NextClient]_vars

\* The step is the return of the blocked Lock call of t
IsWake(t) == pc[t] = "woken" /\ pc'[t] = "idle"

\* The step is a Lock call of t that returns Deadlock without blocking
IsDeadlockExit(t) ==
  /\ lockBudget' # lockBudget
  /\ lockCall' = <<"lock", t>>
  /\ res'[t] = "deadlock"

\* The locks t holds on the RIDs other than r stay
KeepsOthers(t, r) ==
  \A r2 \in RIDs \ {r} :
    Cardinality(GrantedOf(lockTable'[r2], t)) = Cardinality(GrantedOf(lockTable[r2], t))

\* C39: a blocked Lock call that returns success leaves no pending request of
\* its transaction behind; a call whose request is granted when it wakes up
\* returns success and the request list stays as it is; a call that returns
\* Deadlock, at once or after waking up, had a request that was not granted,
\* the request is no longer in the list, and the locks the transaction holds
\* on other RIDs stay.
C39_WakeResult ==
  [][\A t \in Txns :
       /\ IsWake(t)
            => LET r == waitRid[t] IN
               /\ res'[t] = "ok" => PendingOf(lockTable'[r], t) = {}
               /\ GrantedOf(lockTable[r], t) # {}
                    => (res'[t] = "ok" /\ lockTable'[r] = lockTable[r])
               /\ res'[t] = "deadlock"
                    => /\ PendingOf(lockTable[r], t) # {}
                       /\ PendingOf(lockTable'[r], t) = {}
                       /\ KeepsOthers(t, r)
       /\ IsDeadlockExit(t)
            => \A r \in RIDs :
                 /\ PendingOf(lockTable'[r], t) = {}
                 /\ Cardinality(GrantedOf(lockTable'[r], t))
                      = Cardinality(GrantedOf(lockTable[r], t))]_vars

\* What holds of the results: success leaves no pending request behind, a
\* Deadlock leaves no request of the call in the list and keeps the locks on
\* the other RIDs, and a Deadlock without blocking keeps every granted lock
WakeResultLoose ==
  [][\A t \in Txns :
       /\ IsWake(t)
            => LET r == waitRid[t] IN
               /\ res'[t] = "ok" => (PendingOf(lockTable'[r], t) = {} /\ lockTable' = lockTable)
               /\ res'[t] = "deadlock"
                    => /\ PendingOf(lockTable'[r], t) = {}
                       /\ KeepsOthers(t, r)
       /\ IsDeadlockExit(t)
            => \A r \in RIDs :
                 /\ PendingOf(lockTable'[r], t) = {}
                 /\ Cardinality(GrantedOf(lockTable'[r], t))
                      = Cardinality(GrantedOf(lockTable[r], t))]_vars


\* ------------------------------------- the lock manager, fair scheduling

\* The lock manager at its construction, with the Lock calls of a fair run
InitLive ==
  /\ InitLocks
  /\ InitLog
  /\ InitPool(1)
  /\ wrBudget = 0
  /\ bufBudget = 0
  /\ InitSlotted
  /\ slotBudget = 0
  /\ NoTreeCalls
  /\ NoFnCalls
  /\ txnState = [t \in Txns |-> "Active"]
  /\ nextTxnID = Cardinality(Txns) + 1
  /\ activeTxns = Txns
  /\ tmOp = NoOp
  /\ last = <<"none", 0, "none">>
  /\ fate = [t \in Txns |-> "none"]
  /\ lockBudget = MaxLiveCalls
  /\ callBudget = 0
  /\ updBudget = 0
  /\ ioBudget = 0

\* A client that is not blocked gives up all its locks
ReleaseAll(t) ==
  /\ pc[t] = "idle"
  /\ \E r \in RIDs : GrantedOf(lockTable[r], t) # {}
  /\ UnlockAll(t)

NextLive ==
  \/ \E t \in Txns, r \in RIDs : LockShared(t, r)
  \/ \E t \in Txns, r \in RIDs : LockExclusive(t, r)
  \/ \E t \in Txns : Wake(t)
  \/ \E t \in Txns, r \in RIDs : ClientUnlock(t, r)
  \/ \E t \in Txns : ReleaseAll(t)

\* The lock manager with a scheduler that runs every signalled goroutine
SpecLockLive ==
  /\ InitLive
  /\ [][NextLive]_vars
  /\ \A t \in Txns : WF_vars(Wake(t))

\* The granted requests of the transactions other than t in a request list
GrantedOfOthers(q, t) == {i \in GrantedIdx(q) : q[i].txn # t}

\* Every pending request stands behind a granted request of another transaction
NoFreeWait ==
  \A r \in RIDs : \A i \in PendingIdx(lockTable[r]) :
    GrantedOfOthers(lockTable[r], lockTable[r][i].txn) # {}

\* C38: after every operation of the lock manager a RID whose list holds a
\* pending request also holds a granted request of another transaction; and a
\* pending request whose blockers are all released at some later time is
\* granted at some later time, with its waiter signalled, and a signalled
\* waiter runs and returns from its call.
C38_NoFreeWait ==
  /\ []NoFreeWait
  /\ \A t \in Txns, r \in RIDs :
       []((PendingOf(lockTable[r], t) # {}
             /\ <>(GrantedOfOthers(lockTable[r], t) = {}))
          => <>(GrantedOf(lockTable[r], t) # {} /\ pc[t] = "woken"))
  /\ \A t \in Txns : (pc[t] = "woken") ~> (pc[t] = "idle")

\* An Unlock has granted the pending request of a blocked transaction and has
\* signalled it, while another request on the same RID is still pending
C38_Witness ==
  \E t \in Txns, r \in RIDs :
    /\ lockCall[1] \in {"unlock", "unlockAll"}
    /\ pc[t] = "woken"
    /\ waitRid[t] = r
    /\ GrantedOf(lockTable[r], t) # {}
    /\ PendingIdx(lockTable[r]) # {}


\* ------------------------------------- the lock manager, repeated requests

\* The step is a Lock call of an active transaction t for RID r in the mode
IsLockCall(t, r, mode) == Lock(t, r, mode) /\ IsActive(txnState[t])

\* The request conflicts with a lock its own transaction holds on the RID
SelfConflict(t, r, mode) == HoldsX(t, r) \/ (HoldsS(t, r) /\ mode = "X")

\* C40: a Lock call of a transaction that holds a Shared lock on the RID and
\* asks for Exclusive, or holds Exclusive and asks for either mode, cannot be
\* granted, puts an edge from the transaction to itself into the wait-for
\* graph and returns Deadlock without blocking; the lock table and the state
\* of every goroutine stay as they were.  A Shared request of a transaction
\* that holds only a Shared lock on the RID is granted in the call.
C40_SelfConflict ==
  [][\A t \in Txns, r \in RIDs, mode \in {"S", "X"} :
       IsLockCall(t, r, mode) =>
         LET q == lockTable[r] IN
         /\ SelfConflict(t, r, mode)
              => /\ ~canGrantLock(q, mode)
                 /\ t \in updateWaitForGraph(waitFor, Append(q, Req(t, mode, FALSE)))[t]
                 /\ res'[t] = "deadlock"
                 /\ pc' = pc
                 /\ lockTable' = lockTable
         /\ (HoldsS(t, r) /\ ~HoldsX(t, r) /\ mode = "S")
              => /\ res'[t] = "ok"
                 /\ pc'[t] = "idle"
                 /\ lockTable'[r] = Append(q, Req(t, "S", TRUE))]_vars

\* The only transaction with a request in the lock table holds a lock, and its
\* last Lock call has returned Deadlock
C40_Witness ==
  \E t \in Txns :
    /\ lockCall = <<"lock", t>>
    /\ res[t] = "deadlock"
    /\ \E r \in RIDs : GrantedOf(lockTable[r], t) # {}
    /\ \A r \in RIDs : \A i \in 1..Len(lockTable[r]) : lockTable[r][i].txn = t
    /\ \A u \in Txns : pc[u] = "idle"

\* A Shared holder has been granted a second Shared lock on the RID
RepeatedShared ==
  \E t \in Txns, r \in RIDs :
    /\ lockCall = <<"lock", t>>
    /\ res[t] = "ok"
    /\ Cardinality(GrantedOf(lockTable[r], t)) = 2

====
